---- MODULE Spec2Model ----
(***************************************************************************)
(* A model of the dissat CDCL solver (src/src/solver): clause arena,       *)
(* two-watched-literal propagation, trail, 1UIP conflict analysis, clause  *)
(* database reduction and the solve() driver, plus the DIMACS reader.      *)
(*                                                                         *)
(* The model follows the release build: debug_assert! is compiled out,     *)
(* assert!, unreachable!, unwrap and slice indexing panic.                 *)
(*                                                                         *)
(* A u32 word of the arena is written as the 32-bit two's-complement       *)
(* integer with the same bits: a word has its most significant bit set iff *)
(* it is negative, and u32::MAX is -1.                                     *)
(***************************************************************************)
EXTENDS Integers, Sequences, FiniteSets, Bags, TLC

\* ---------------------------------------------------------------- bounds
\* Largest variable id of an input literal.
MaxVar == 3
\* Largest number of literals of one add_clause call.
MaxLen == 3
\* Largest number of add_clause calls before solve().
MaxClauses == 3

\* ------------------------------------------------------------- utilities
Abs(i) == IF i < 0 THEN -i ELSE i

Range(f) == {f[i] : i \in DOMAIN f}

\* The sequences over S of length 0..n.
SeqUpTo(S, n) == UNION {[1..k -> S] : k \in 0..n}

\* xs with the elements at 0-based indices i and j exchanged (slice::swap).
Swap(xs, i, j) == [xs EXCEPT ![i + 1] = xs[j + 1], ![j + 1] = xs[i + 1]]

\* Vec::resize to a length n >= Len(xs).
Resize(xs, n, val) == xs \o [k \in 1..(n - Len(xs)) |-> val]

\* ------------------------------------------------------ Lit and Var (var.rs)
\* Lit::new: the low bit is the sign, the remaining bits the variable.
LitNew(i) == 2 * Abs(i) + (IF i < 0 THEN 1 ELSE 0)

\* Lit::var
LitVar(l) == l \div 2

\* Lit::is_pos
IsPos(l) == l % 2 = 0

\* Neg for Lit: flip the low bit.
Neg(l) == IF l % 2 = 0 THEN l + 1 ELSE l - 1

\* From<Var> for Lit: the positive literal of a variable.
LitFromVar(v) == 2 * v

\* lit_to_idx: +v |-> 2v-2, -v |-> 2v-1 (0-based index into the LitVec).
LitToIdx(l) == l - 2

\* ----------------------------------------------------- TrailReason (trail.rs)
Decision == [kind |-> "Decision", cls |-> 0]
Axiom == [kind |-> "Axiom", cls |-> 0]
Propagated(h) == [kind |-> "Propagated", cls |-> h]

\* Option<AssignData>: None and Some(AssignData {status, decision_level, reason}).
NoneData == [is_some |-> FALSE, status |-> FALSE, decision_level |-> 0, reason |-> Axiom]
SomeData(st, lvl, r) == [is_some |-> TRUE, status |-> st, decision_level |-> lvl, reason |-> r]

\* --------------------------------------------------- VarVec (data/varvec.rs)
\* usize::MAX, what 0 - 1 wraps to; written as the largest integer of the
\* checker, it is only ever compared with the lengths of sequences.
UsizeMax == 2147483647

\* VarVec::len: the raw vector keeps an unused slot 0.
VarVecLen(raw) == IF Len(raw) = 0 THEN UsizeMax ELSE Len(raw) - 1

\* VarVec::expand
VarVecExpand(raw, v, val) == IF v + 1 >= Len(raw) THEN Resize(raw, v + 1, val) ELSE raw

\* LitVec::expand
LitVecExpand(raw, l, val) ==
    IF LitToIdx(l) + 1 >= Len(raw) THEN Resize(raw, LitToIdx(l) + 1, val) ELSE raw

\* ------------------------------------------------- Assignment (assignment.rs)
\* assignment[lit.var()]
AssignOf(a, l) == a[LitVar(l) + 1]

IsLitSatisfied(a, l) == AssignOf(a, l).is_some /\ (AssignOf(a, l).status = IsPos(l))

IsLitUnsatisfied(a, l) == AssignOf(a, l).is_some /\ (AssignOf(a, l).status # IsPos(l))

\* "Not satisfied" taken for "unassigned".
IsLitNotSatisfied(a, l) == ~(AssignOf(a, l).is_some /\ (AssignOf(a, l).status = IsPos(l)))

IsLitUnassigned(a, l) == ~AssignOf(a, l).is_some

\* Assignment::assign_lit (the debug_assert on is_lit_unassigned is compiled out).
AssignmentAssignLit(a, l, lvl, r) == [a EXCEPT ![LitVar(l) + 1] = SomeData(IsPos(l), lvl, r)]

\* Assignment::unassign_lit
UnassignLit(a, l) == [a EXCEPT ![LitVar(l) + 1] = NoneData]

\* Assignment::find_unassigned_variable: the first variable without a value, 0 for None.
FindUnassignedVariable(a) ==
    LET free == {v \in 1..(Len(a) - 1) : ~a[v + 1].is_some}
    IN IF free = {} THEN 0 ELSE CHOOSE v \in free : \A w \in free : v <= w

\* ------------------------------------------------------------ Trail (trail.rs)
\* Trail::current_decision_level
CurrentDecisionLevel(t) == Len(t.decision_positions)

\* Trail::total_vars
TotalVars(t) == VarVecLen(t.assignment)

\* Trail::assignment_complete
AssignmentComplete(t) == Len(t.trail) = VarVecLen(t.assignment)

\* Trail::get_decision_level (of an assigned literal)
GetDecisionLevel(t, l) == AssignOf(t.assignment, l).decision_level

\* An assign_lit that records the length of the trail as the level.
AssignLitAtTrailLength(t, l, r) ==
    LET dp == IF r = Decision
              THEN Append(t.decision_positions, Len(t.trail))
              ELSE t.decision_positions
    IN [trail |-> Append(t.trail, [lit |-> l, reason |-> r]),
        decision_positions |-> dp,
        assignment |-> AssignmentAssignLit(t.assignment, l, Len(t.trail) + 1, r)]

\* Trail::assign_lit
AssignLit(t, l, r) ==
    LET dp == IF r = Decision
              THEN Append(t.decision_positions, Len(t.trail))
              ELSE t.decision_positions
    IN [trail |-> Append(t.trail, [lit |-> l, reason |-> r]),
        decision_positions |-> dp,
        assignment |-> AssignmentAssignLit(t.assignment, l, Len(dp), r)]

\* ------------------------------------------------------ ClauseDB (clause.rs)
\* FlagsInternal
CLAUSE_BEGIN_SENTINEL == -2147483647 - 1
IS_GARBAGE == 1
IS_REASON == 2

\* u32::MAX, the mark of a removed clause.
REMOVED == -1

\* Offsets: the header words before the literals.
OffFlags == 0
OffLen == 1
OffGlue == 2
OffLits == 3

\* The word at a 0-based offset.
Word(cd, off) == cd[off + 1]

\* Does the word have its most significant bit set?
Msb(w) == w < 0

\* The flag bits of a flags word.
FlagBits(w) == w - CLAUSE_BEGIN_SENTINEL

IsGarbageWord(w) == FlagBits(w) % 2 = 1

IsReasonWord(w) == (FlagBits(w) \div 2) % 2 = 1

\* ClauseDB::assert_valid_offset
ValidOffset(cd, off) == off < Len(cd) /\ Msb(Word(cd, off))

\* Clause::len
ClauseLen(cd, h) == Word(cd, h + OffLen)

\* Clause::glue (0 for None)
ClauseGlue(cd, h) == Word(cd, h + OffGlue)

\* Clause::lits
ClauseLits(cd, h) == SubSeq(cd, h + OffLits + 1, h + OffLits + ClauseLen(cd, h))

\* cls[i], the literal at 0-based position i of the clause at h.
ClauseLit(cd, h, i) == Word(cd, h + OffLits + i)

\* A swap that leaves the literals of the clause where they are.
ClauseSwapNothing(cd, h, i, j) == cd

\* cls.swap(i, j) on the literals of the clause at h.
ClauseSwap(cd, h, i, j) == Swap(cd, h + OffLits + i, h + OffLits + j)

\* Flags::set_is_reason
SetIsReason(cd, h, value) ==
    LET w == Word(cd, h)
        cleared == IF IsReasonWord(w) THEN w - IS_REASON ELSE w
    IN [cd EXCEPT ![h + 1] = IF value THEN cleared + IS_REASON ELSE cleared]

\* Flags::set_is_garbage
SetIsGarbage(cd, h, value) ==
    LET w == Word(cd, h)
        cleared == IF IsGarbageWord(w) THEN w - IS_GARBAGE ELSE w
    IN [cd EXCEPT ![h + 1] = IF value THEN cleared + IS_GARBAGE ELSE cleared]

\* An insertion that writes a flags word without the sentinel bit.
InsertClauseNoSentinel(cd, lits, glue) == cd \o <<0, Len(lits), glue>> \o lits

\* ClauseDB::insert_clause: the new buffer; the handle is the old length.
InsertClause(cd, lits, glue) == cd \o <<CLAUSE_BEGIN_SENTINEL, Len(lits), glue>> \o lits

\* ClauseDB::iter: the offsets of the clauses of a buffer, front to back.
RECURSIVE ClauseOffsetsFrom(_, _)
ClauseOffsetsFrom(cd, off) ==
    IF off >= Len(cd) THEN <<>>
    ELSE <<off>> \o ClauseOffsetsFrom(cd, off + OffLits + ClauseLen(cd, off))

ClauseOffsets(cd) == ClauseOffsetsFrom(cd, 0)

\* ------------------------------------------------- add_clause (solver/mod.rs)
\* slice::sort_by_key(|lit| lit.var()): a stable sort by variable.
RECURSIVE SortByVar(_)
SortByVar(cls) ==
    IF cls = <<>> THEN <<>>
    ELSE LET init == SortByVar(SubSeq(cls, 1, Len(cls) - 1))
             x == cls[Len(cls)]
             k == Cardinality({i \in 1..Len(init) : LitVar(init[i]) <= LitVar(x)})
         IN SubSeq(init, 1, k) \o <<x>> \o SubSeq(init, k + 1, Len(init))

\* No removal of repeated elements.
DedupNothing(cls) == cls

\* Vec::dedup: drop every element equal to its predecessor.
RECURSIVE Dedup(_)
Dedup(cls) ==
    IF Len(cls) <= 1 THEN cls
    ELSE LET init == Dedup(SubSeq(cls, 1, Len(cls) - 1))
             x == cls[Len(cls)]
         IN IF init[Len(init)] = x THEN init ELSE Append(init, x)

\* Solver::normalise_clause: the clause sorted and deduplicated, and whether
\* two neighbours share a variable.
NormaliseClauseKeepAll(cls) == [cls |-> Dedup(SortByVar(cls)), taut |-> FALSE]

NormaliseClause(cls) ==
    LET out == Dedup(SortByVar(cls))
    IN [cls |-> out,
        taut |-> \E i \in 1..(Len(out) - 1) : LitVar(out[i]) = LitVar(out[i + 1])]

\* The largest variable of a non-empty clause (max_by_key).
MaxVarOf(cls) == CHOOSE v \in {LitVar(l) : l \in Range(cls)} :
                    \A l \in Range(cls) : LitVar(l) <= v

\* The unit arm without its test of the literal's current value.
AddUnitClauseUnchecked(s, lit) ==
    [s EXCEPT !.trail = AssignLit(@, lit, Axiom)]

\* Solver::add_clause, the arm for a clause of one literal: trivially unsat
\* if the literal is false already, else a level-0 assignment.
AddUnitClause(s, lit) ==
    IF IsLitUnsatisfied(s.trail.assignment, lit)
    THEN [s EXCEPT !.trivially_unsat = TRUE]
    ELSE [s EXCEPT !.trail = AssignLit(@, lit, Axiom)]

\* Solver::add_clause on the solver s with the integers ints.
AddClauseOp(s, ints) ==
    LET n == NormaliseClause([i \in 1..Len(ints) |-> LitNew(ints[i])])
        cls == n.cls
        s1 == IF cls = <<>> THEN s
              ELSE [s EXCEPT
                      !.trail.assignment = VarVecExpand(@, MaxVarOf(cls), NoneData),
                      !.watches = LitVecExpand(@, Neg(LitFromVar(MaxVarOf(cls))), <<>>)]
    IN IF n.taut THEN s
       ELSE IF Len(cls) = 0 THEN [s1 EXCEPT !.trivially_unsat = TRUE]
       ELSE IF Len(cls) = 1 THEN AddUnitClause(s1, cls[1])
       ELSE LET h == Len(s1.clause_db.clause_data)
            IN [s1 EXCEPT
                  !.clause_db.clause_data = InsertClause(@, cls, 0),
                  !.watches[LitToIdx(cls[1]) + 1] = Append(@, h),
                  !.watches[LitToIdx(cls[2]) + 1] = Append(@, h)]

\* ------------------------------------------------- propagate (propagate.rs)
\* No clause: the value of contradiction_found while it is None.
NoClause == -1

\* The body of lit_watch.retain(..) without the early return once a
\* contradiction was found: the entries after it are processed as well.
RECURSIVE RetainWatchesPastConflict(_, _, _, _, _)
RetainWatchesPastConflict(s, lit, ws, kept, confl) ==
    IF ws = <<>> THEN [s |-> s, kept |-> kept, confl |-> confl]
    ELSE
    LET h == Head(ws)
        cd == s.clause_db.clause_data
        a == s.trail.assignment
        lit_idx == IF ClauseLit(cd, h, 0) = Neg(lit) THEN 0 ELSE 1
        other_watched_lit_idx == 1 - lit_idx
        other_watched_lit == ClauseLit(cd, h, other_watched_lit_idx)
        cands == {k \in 2..(ClauseLen(cd, h) - 1) : ~IsLitUnsatisfied(a, ClauseLit(cd, h, k))}
        candidate_idx == CHOOSE k \in cands : \A j \in cands : k <= j
    IN IF IsLitSatisfied(a, other_watched_lit)
       THEN RetainWatchesPastConflict(s, lit, Tail(ws), Append(kept, h), confl)
       ELSE IF cands # {}
       THEN RetainWatchesPastConflict(
              [s EXCEPT !.watches[LitToIdx(ClauseLit(cd, h, candidate_idx)) + 1] = Append(@, h),
                        !.clause_db.clause_data = ClauseSwap(@, h, lit_idx, candidate_idx)],
              lit, Tail(ws), kept, confl)
       ELSE IF IsLitUnassigned(a, other_watched_lit)
       THEN RetainWatchesPastConflict(
              [s EXCEPT !.trail = AssignLit(@, other_watched_lit, Propagated(h)),
                        !.clause_db.clause_data = ClauseSwap(@, h, 0, other_watched_lit_idx),
                        !.stats.propagations = @ + 1],
              lit, Tail(ws), Append(kept, h), confl)
       ELSE RetainWatchesPastConflict(
              [s EXCEPT !.stats.contradictions = @ + 1],
              lit, Tail(ws), Append(kept, h), h)

\* The body of lit_watch.retain(..) over the watch entries ws still to visit
\* of the literal -lit: kept are the entries retained so far, confl the
\* contradiction found so far.
RECURSIVE RetainWatches(_, _, _, _, _)
RetainWatches(s, lit, ws, kept, confl) ==
    IF ws = <<>> THEN [s |-> s, kept |-> kept, confl |-> confl]
    ELSE IF confl # NoClause
    THEN RetainWatches(s, lit, Tail(ws), Append(kept, Head(ws)), confl)
    ELSE
    LET h == Head(ws)
        cd == s.clause_db.clause_data
        a == s.trail.assignment
        lit_idx == IF ClauseLit(cd, h, 0) = Neg(lit) THEN 0 ELSE 1
        other_watched_lit_idx == 1 - lit_idx
        other_watched_lit == ClauseLit(cd, h, other_watched_lit_idx)
        cands == {k \in 2..(ClauseLen(cd, h) - 1) : ~IsLitUnsatisfied(a, ClauseLit(cd, h, k))}
        candidate_idx == CHOOSE k \in cands : \A j \in cands : k <= j
    IN IF IsLitSatisfied(a, other_watched_lit)
       THEN RetainWatches(s, lit, Tail(ws), Append(kept, h), confl)
       ELSE IF cands # {}
       THEN RetainWatches(
              [s EXCEPT !.watches[LitToIdx(ClauseLit(cd, h, candidate_idx)) + 1] = Append(@, h),
                        !.clause_db.clause_data = ClauseSwap(@, h, lit_idx, candidate_idx)],
              lit, Tail(ws), kept, confl)
       ELSE IF IsLitUnassigned(a, other_watched_lit)
       THEN RetainWatches(
              [s EXCEPT !.trail = AssignLit(@, other_watched_lit, Propagated(h)),
                        !.clause_db.clause_data = ClauseSwap(@, h, 0, other_watched_lit_idx),
                        !.stats.propagations = @ + 1],
              lit, Tail(ws), Append(kept, h), confl)
       ELSE RetainWatches(
              [s EXCEPT !.stats.contradictions = @ + 1],
              lit, Tail(ws), Append(kept, h), h)

\* The while loop of Solver::propagate from trail position trail_pos on. confl
\* is the clause of PropagationResult::Contradiction, NoClause for Done.
RECURSIVE PropagateFrom(_, _)
PropagateFrom(s, trail_pos) ==
    IF trail_pos >= Len(s.trail.trail)
    THEN [s |-> [s EXCEPT !.unpropagated_lit_pos = trail_pos], confl |-> NoClause]
    ELSE LET lit == s.trail.trail[trail_pos + 1].lit
             w == LitToIdx(Neg(lit)) + 1
             r == RetainWatches(s, lit, s.watches[w], <<>>, NoClause)
             s2 == [r.s EXCEPT !.watches[w] = r.kept]
         IN IF r.confl # NoClause THEN [s |-> s2, confl |-> r.confl]
            ELSE PropagateFrom(s2, trail_pos + 1)

\* Solver::propagate
Propagate(s) == PropagateFrom(s, s.unpropagated_lit_pos)

\* ------------------------------------------------------ backtrack (trail.rs)
\* The loop of Trail::backtrack over the removed entries: unassign each, and
\* on_pop (the closure of analyze_contradiction) clears is_reason on its reason.
\* The loop with an on_pop that leaves the flags alone.
RECURSIVE PopEntriesKeepFlags(_, _, _)
PopEntriesKeepFlags(a, cd, es) ==
    IF es = <<>> THEN [assignment |-> a, cd |-> cd]
    ELSE PopEntriesKeepFlags(UnassignLit(a, Head(es).lit), cd, Tail(es))

RECURSIVE PopEntries(_, _, _)
PopEntries(a, cd, es) ==
    IF es = <<>> THEN [assignment |-> a, cd |-> cd]
    ELSE LET e == Head(es)
         IN PopEntries(UnassignLit(a, e.lit),
                       IF e.reason.kind = "Propagated"
                       THEN SetIsReason(cd, e.reason.cls, FALSE) ELSE cd,
                       Tail(es))

\* A backtrack that cuts the trail one entry late: the decision that opened
\* level lvl + 1 stays on the trail.
BacktrackKeepDecision(t, cd, lvl) ==
    IF lvl >= Len(t.decision_positions)
    THEN [trail |-> t, cd |-> cd, pos |-> Len(t.trail)]
    ELSE LET pos == t.decision_positions[lvl + 1] + 1
             r == PopEntries(t.assignment, cd, SubSeq(t.trail, pos + 1, Len(t.trail)))
         IN [trail |-> [trail |-> SubSeq(t.trail, 1, pos),
                        decision_positions |-> SubSeq(t.decision_positions, 1, lvl),
                        assignment |-> r.assignment],
             cd |-> r.cd,
             pos |-> pos]

\* A backtrack that truncates decision_positions and leaves the entries of
\* the removed levels on the trail.
BacktrackKeepEntries(t, cd, lvl) ==
    IF lvl >= Len(t.decision_positions)
    THEN [trail |-> t, cd |-> cd, pos |-> Len(t.trail)]
    ELSE [trail |-> [t EXCEPT !.decision_positions = SubSeq(@, 1, lvl)],
          cd |-> cd,
          pos |-> Len(t.trail)]

\* Trail::backtrack(lvl, on_pop): the trail, the arena after the on_pop calls
\* and the returned position.
Backtrack(t, cd, lvl) ==
    IF lvl >= Len(t.decision_positions)
    THEN [trail |-> t, cd |-> cd, pos |-> Len(t.trail)]
    ELSE LET pos == t.decision_positions[lvl + 1]
             r == PopEntries(t.assignment, cd, SubSeq(t.trail, pos + 1, Len(t.trail)))
         IN [trail |-> [trail |-> SubSeq(t.trail, 1, pos),
                        decision_positions |-> SubSeq(t.decision_positions, 1, lvl),
                        assignment |-> r.assignment],
             cd |-> r.cd,
             pos |-> pos]

\* --------------------------------------------------- analysis (analyze.rs)
\* AnalyzeState::reset
ResetAnalyzeState(num_vars, decision_levels) ==
    [seen |-> [v \in 1..num_vars |-> FALSE],
     new_clause |-> <<>>,
     open |-> 0,
     levels_seen |-> [l \in 1..(decision_levels + 1) |-> FALSE],
     levels_in_clause |-> <<>>]

\* An analyze_literal that counts every new literal as open, whatever its
\* level.
AnalyzeLiteralAllOpen(st, lit, t) ==
    IF st.seen[LitVar(lit)] THEN st
    ELSE LET lit_level == GetDecisionLevel(t, lit)
             st1 == IF lit_level < CurrentDecisionLevel(t)
                    THEN [st EXCEPT !.new_clause = Append(@, lit), !.open = @ + 1]
                    ELSE [st EXCEPT !.open = @ + 1]
             st2 == IF ~st1.levels_seen[lit_level + 1]
                    THEN [st1 EXCEPT !.levels_seen[lit_level + 1] = TRUE,
                                     !.levels_in_clause = Append(@, lit_level)]
                    ELSE st1
         IN [st2 EXCEPT !.seen[LitVar(lit)] = TRUE]

\* An analyze_literal that records the level of every literal, seen before
\* or not.
AnalyzeLiteralCountAll(st, lit, t) ==
    IF st.seen[LitVar(lit)] THEN st
    ELSE LET lit_level == GetDecisionLevel(t, lit)
             st1 == IF lit_level < CurrentDecisionLevel(t)
                    THEN [st EXCEPT !.new_clause = Append(@, lit)]
                    ELSE [st EXCEPT !.open = @ + 1]
             st2 == [st1 EXCEPT !.levels_seen[lit_level + 1] = TRUE,
                                !.levels_in_clause = Append(@, lit_level)]
         IN [st2 EXCEPT !.seen[LitVar(lit)] = TRUE]

\* An analyze_literal that also puts the literals of the current level into
\* the new clause.
AnalyzeLiteralKeepCurrent(st, lit, t) ==
    IF st.seen[LitVar(lit)] THEN st
    ELSE LET lit_level == GetDecisionLevel(t, lit)
             st1 == IF lit_level < CurrentDecisionLevel(t)
                    THEN [st EXCEPT !.new_clause = Append(@, lit)]
                    ELSE [st EXCEPT !.new_clause = Append(@, lit), !.open = @ + 1]
             st2 == IF ~st1.levels_seen[lit_level + 1]
                    THEN [st1 EXCEPT !.levels_seen[lit_level + 1] = TRUE,
                                     !.levels_in_clause = Append(@, lit_level)]
                    ELSE st1
         IN [st2 EXCEPT !.seen[LitVar(lit)] = TRUE]

\* AnalyzeState::analyze_literal
AnalyzeLiteral(st, lit, t) ==
    IF st.seen[LitVar(lit)] THEN st
    ELSE LET lit_level == GetDecisionLevel(t, lit)
             st1 == IF lit_level < CurrentDecisionLevel(t)
                    THEN [st EXCEPT !.new_clause = Append(@, lit)]
                    ELSE [st EXCEPT !.open = @ + 1]
             st2 == IF ~st1.levels_seen[lit_level + 1]
                    THEN [st1 EXCEPT !.levels_seen[lit_level + 1] = TRUE,
                                     !.levels_in_clause = Append(@, lit_level)]
                    ELSE st1
         IN [st2 EXCEPT !.seen[LitVar(lit)] = TRUE]

\* AnalyzeState::analyze_reason; lit is the literal to skip, 0 for None.
RECURSIVE AnalyzeReason(_, _, _, _)
AnalyzeReason(st, lit, reason, t) ==
    IF reason = <<>> THEN st
    ELSE AnalyzeReason(
           IF lit = Head(reason) THEN st ELSE AnalyzeLiteral(st, Head(reason), t),
           lit, Tail(reason), t)

\* The inner loop of analyze_contradiction: the largest trail position below
\* trail_pos holding a seen literal of the current level, -1 when the walk
\* runs off the start of the trail.
UipPos(st, t, trail_pos) ==
    LET hits == {p \in 0..(trail_pos - 1) :
                   /\ st.seen[LitVar(t.trail[p + 1].lit)]
                   /\ GetDecisionLevel(t, t.trail[p + 1].lit) = CurrentDecisionLevel(t)}
    IN IF hits = {} THEN -1 ELSE CHOOSE p \in hits : \A q \in hits : q <= p

\* The outer loop of analyze_contradiction ("Determine new 1UIP clause").
RECURSIVE UipLoop(_, _, _, _, _, _)
UipLoop(t, cd, st, reason, maybe_uip, trail_pos) ==
    LET st1 == AnalyzeReason(st, maybe_uip, ClauseLits(cd, reason), t)
        p == UipPos(st1, t, trail_pos)
        uip == t.trail[p + 1].lit
        why == AssignOf(t.assignment, uip).reason
    IN IF p < 0 THEN [st |-> st1, uip |-> 0, panic |-> TRUE]
       ELSE IF st1.open = 1 THEN [st |-> st1, uip |-> uip, panic |-> FALSE]
       ELSE IF why.kind # "Propagated" THEN [st |-> st1, uip |-> uip, panic |-> TRUE]
       ELSE UipLoop(t, cd, [st1 EXCEPT !.open = @ - 1], why.cls, uip, p)

\* A backjump level that is always the root level.
MaxLevelRoot(t, lits) == 0

\* The largest decision level among the literals, 0 for none.
MaxLevel(t, lits) ==
    LET lvls == {GetDecisionLevel(t, lits[i]) : i \in 1..Len(lits)} \cup {0}
    IN CHOOSE m \in lvls : \A l \in lvls : l <= m

\* Solver::analyze_contradiction at a decision level above 0: learn the 1UIP
\* clause, backjump and assert the flipped UIP. The solver afterwards and the
\* result ("Done", or "Panic" where the code panics).
LearnAndBackjump(s, clause) ==
    LET r == UipLoop(s.trail, s.clause_db.clause_data,
                     ResetAnalyzeState(TotalVars(s.trail), CurrentDecisionLevel(s.trail)),
                     clause, 0, Len(s.trail.trail))
        uip_clause == Append(r.st.new_clause, Neg(r.uip))
        st == [r.st EXCEPT !.new_clause = uip_clause]
        backjump_level == MaxLevel(s.trail, r.st.new_clause)
        b == Backtrack(s.trail, s.clause_db.clause_data, backjump_level)
        uip_clause_idx == Len(b.cd)
        s1 == [s EXCEPT !.analyze_state = st,
                        !.unpropagated_lit_pos = b.pos,
                        !.trail = b.trail,
                        !.clause_db.clause_data = b.cd]
    IN IF r.panic THEN [s |-> [s EXCEPT !.analyze_state = r.st], result |-> "Panic"]
       ELSE IF Len(uip_clause) = 1
       THEN [s |-> [s1 EXCEPT !.trail = AssignLit(@, Neg(r.uip), Axiom)], result |-> "Done"]
       ELSE [s |-> [s1 EXCEPT
                      !.clause_db.clause_data =
                          SetIsReason(InsertClause(@, uip_clause, Len(st.levels_in_clause)),
                                      uip_clause_idx, TRUE),
                      !.trail = AssignLit(@, Neg(r.uip), Propagated(uip_clause_idx))],
             result |-> "Done"]

\* Analysis that gives up one decision level early.
AnalyzeContradictionEager(s, clause) ==
    IF CurrentDecisionLevel(s.trail) <= 1 THEN [s |-> s, result |-> "Unsat"]
    ELSE LearnAndBackjump(s, clause)

\* Solver::analyze_contradiction: Unsat at decision level 0.
AnalyzeContradiction(s, clause) ==
    IF CurrentDecisionLevel(s.trail) = 0 THEN [s |-> s, result |-> "Unsat"]
    ELSE LearnAndBackjump(s, clause)

\* -------------------------------------------- clause reduction (garbage.rs)
\* The arena keeps the word layout of clause.rs. Compaction and the rewrite
\* of handles follow garbage.rs, next to Solver::collect_garbage: a kept
\* clause is copied as it is and the first word of its old slot receives the
\* new offset, a removed clause's first word receives u32::MAX. The
\* ClauseDB::collect_garbage of clause.rs, which uses the Len word for this,
\* is modelled next to it as CollectGarbageLenWord; the steps of the solver
\* use the one of garbage.rs, the one its update_clause_index can read.
\* The clause_meta view of the arena: a clause's range starts at its handle
\* and its is_garbage, is_reason and ldb_glue are its header words.

\* A filter chain that leaves out the is_reason filter.
IsCandidateIgnoringReason(cd, h) ==
    /\ ~IsGarbageWord(Word(cd, h))
    /\ ClauseGlue(cd, h) > 2

\* The three filters of mark_garbage.
IsCandidate(cd, h) ==
    /\ ~IsGarbageWord(Word(cd, h))
    /\ ~IsReasonWord(Word(cd, h))
    /\ ClauseGlue(cd, h) > 2

\* An order that compares the glue only.
RemovedBeforeByGlue(cd, l, r) == ClauseGlue(cd, l) > ClauseGlue(cd, r)

\* The order of removal_candidates.sort_by: higher glue first, then longer first.
RemovedBefore(cd, l, r) ==
    \/ ClauseGlue(cd, l) > ClauseGlue(cd, r)
    \/ (ClauseGlue(cd, l) = ClauseGlue(cd, r) /\ ClauseLen(cd, l) > ClauseLen(cd, r))

\* slice::sort_by (stable) of the candidate handles.
RECURSIVE SortCandidates(_, _)
SortCandidates(cd, hs) ==
    IF hs = <<>> THEN <<>>
    ELSE LET init == SortCandidates(cd, SubSeq(hs, 1, Len(hs) - 1))
             x == hs[Len(hs)]
             k == Cardinality({i \in 1..Len(init) : ~RemovedBefore(cd, x, init[i])})
         IN SubSeq(init, 1, k) \o <<x>> \o SubSeq(init, k + 1, Len(init))

\* The handles among hs that are removal candidates, in order.
RECURSIVE Candidates(_, _)
Candidates(cd, hs) ==
    IF hs = <<>> THEN <<>>
    ELSE (IF IsCandidate(cd, Head(hs)) THEN <<Head(hs)>> ELSE <<>>) \o Candidates(cd, Tail(hs))

\* Set is_garbage on each of the handles.
RECURSIVE MarkAll(_, _)
MarkAll(cd, hs) ==
    IF hs = <<>> THEN cd ELSE MarkAll(SetIsGarbage(cd, Head(hs), TRUE), Tail(hs))

\* Solver::mark_garbage: mark the first 75% of the sorted candidates.
MarkGarbage(cd) ==
    LET removal_candidates == SortCandidates(cd, Candidates(cd, ClauseOffsets(cd)))
        target == (3 * Len(removal_candidates)) \div 4
    IN MarkAll(cd, SubSeq(removal_candidates, 1, target))

\* The retain_mut loop of ClauseDB::collect_garbage over the clauses hs of the
\* live buffer: a kept clause is copied to the new arena and its old slot's
\* first word becomes its new offset, a garbage clause's becomes REMOVED.
RECURSIVE CompactFrom(_, _, _)
CompactFrom(old, new_arena, hs) ==
    IF hs = <<>> THEN [clause_data |-> new_arena, clause_data_old |-> old]
    ELSE LET h == Head(hs)
             words == SubSeq(old, h + 1, h + OffLits + ClauseLen(old, h))
         IN IF IsGarbageWord(Word(old, h))
            THEN CompactFrom([old EXCEPT ![h + 1] = REMOVED], new_arena, Tail(hs))
            ELSE CompactFrom([old EXCEPT ![h + 1] = Len(new_arena)],
                             new_arena \o words, Tail(hs))

\* ClauseDB::collect_garbage: compact into the cleared old buffer, then swap.
CompactDB(db) == CompactFrom(db.clause_data, <<>>, ClauseOffsets(db.clause_data))

\* The loop of the collect_garbage that clause.rs itself defines, from
\* current_pos on: the Len word of each old slot receives REMOVED or the new
\* offset, and a kept clause is copied after that write.
RECURSIVE CompactLenWordFrom(_, _, _)
CompactLenWordFrom(old, new_arena, current_pos) ==
    IF current_pos >= Len(old) THEN [clause_data |-> new_arena, clause_data_old |-> old]
    ELSE LET data_len == OffLits + ClauseLen(old, current_pos)
             is_garbage == IsGarbageWord(Word(old, current_pos + OffFlags))
             stamped == [old EXCEPT ![current_pos + OffLen + 1] =
                             IF is_garbage THEN REMOVED ELSE Len(new_arena)]
         IN CompactLenWordFrom(
                stamped,
                IF is_garbage THEN new_arena
                ELSE new_arena \o SubSeq(stamped, current_pos + 1, current_pos + data_len),
                current_pos + data_len)

\* ClauseDB::collect_garbage of clause.rs: compact, then swap the buffers.
CollectGarbageLenWord(db) == CompactLenWordFrom(db.clause_data, <<>>, 0)

\* ClauseDB::update_old_clause_index of clause.rs: the value in the Len word
\* of the old slot, REMOVED when the clause is gone.
UpdateOldClauseIndex(db, h) == Word(db.clause_data_old, h + OffLen)

\* update_clause_index: the new handle, REMOVED when the clause is gone.
UpdateClauseIndex(db, h) == Word(db.clause_data_old, h)

\* A rewrite of a watch list that drops every entry.
UpdateWatchesDropAll(db, ws) == <<>>

\* A rewrite of a watch list that keeps the entries of removed clauses.
RECURSIVE UpdateWatchesKeepRemoved(_, _)
UpdateWatchesKeepRemoved(db, ws) ==
    IF ws = <<>> THEN <<>>
    ELSE (IF UpdateClauseIndex(db, Head(ws)) = REMOVED THEN <<Head(ws)>>
          ELSE <<UpdateClauseIndex(db, Head(ws))>>) \o UpdateWatchesKeepRemoved(db, Tail(ws))

\* watches.retain_mut(|watch| update_clause_index(..)) on one watch list.
RECURSIVE UpdateWatches(_, _)
UpdateWatches(db, ws) ==
    IF ws = <<>> THEN <<>>
    ELSE (IF UpdateClauseIndex(db, Head(ws)) = REMOVED THEN <<>>
          ELSE <<UpdateClauseIndex(db, Head(ws))>>) \o UpdateWatches(db, Tail(ws))

\* A closure that leaves every handle as it is.
UpdateReasonStale(db, r) == r

\* The closure passed to update_clause_indices: a removed handle stays as it is.
UpdateReason(db, r) ==
    IF r.kind = "Propagated" /\ UpdateClauseIndex(db, r.cls) # REMOVED
    THEN Propagated(UpdateClauseIndex(db, r.cls)) ELSE r

\* Trail::update_clause_indices: for each propagated trail entry, rewrite its
\* handle and the handle the assignment store holds for its literal.
RECURSIVE UpdateClauseIndices(_, _, _)
UpdateClauseIndices(db, t, i) ==
    IF i > Len(t.trail) THEN t
    ELSE LET e == t.trail[i]
         IN IF e.reason.kind = "Propagated"
            THEN UpdateClauseIndices(db,
                   [t EXCEPT !.trail[i].reason = UpdateReason(db, @),
                             !.assignment[LitVar(e.lit) + 1].reason = UpdateReason(db, @)],
                   i + 1)
            ELSE UpdateClauseIndices(db, t, i + 1)

\* Solver::collect_garbage
CollectGarbage(s) ==
    LET db == CompactDB([s.clause_db EXCEPT !.clause_data = MarkGarbage(@)])
    IN [s EXCEPT !.clause_db = db,
                 !.watches = [i \in 1..Len(s.watches) |-> UpdateWatches(db, s.watches[i])],
                 !.trail = UpdateClauseIndices(db, @, 1)]

\* (limit as f32 * 1.05) as u64 for 2048 <= limit <= 10240: 1.05f32 is
\* 1 + 209715 / 2^22, the product is rounded to the nearest f32 (half an ulp
\* is 2^-13 below 4096, 2^-12 below 8192, 2^-11 above) and then truncated.
GrowLimit(limit) ==
    LET n == limit * 209715
        whole == limit + n \div 4194304
        frac == n % 4194304
        half_ulp == IF whole < 4096 THEN 512 ELSE IF whole < 8192 THEN 1024 ELSE 2048
    IN IF frac >= 4194304 - half_ulp THEN whole + 1 ELSE whole

\* Solver::maybe_collect_garbage
MaybeCollectGarbage(s) ==
    IF s.stats.contradiction_since_last_garbage_collections
         >= s.limits.garbage_collection_conflicts
    THEN s
    ELSE CollectGarbage(
           [s EXCEPT !.stats.contradiction_since_last_garbage_collections = 0,
                     !.limits.garbage_collection_conflicts = GrowLimit(@)])

\* ------------------------------------------------------ solve (solver/mod.rs)
\* Trail::is_clause_satisfied
IsClauseSatisfied(a, lits) == \E i \in 1..Len(lits) : IsLitSatisfied(a, lits[i])

\* Solver::check_assignment
CheckAssignment(s) ==
    LET cd == s.clause_db.clause_data
        hs == ClauseOffsets(cd)
    IN \A i \in 1..Len(hs) : IsClauseSatisfied(s.trail.assignment, ClauseLits(cd, hs[i]))

\* Model::lit
ModelLit(s, i) == IsLitSatisfied(s.trail.assignment, LitNew(i))

\* Model::as_vec
ModelAsVec(s) == [i \in 1..TotalVars(s.trail) |-> IF ModelLit(s, i) THEN i ELSE -i]

\* Solver::new (Default): Limits::default sets the reduction limit.
NewSolver ==
    [clause_db |-> [clause_data |-> <<>>, clause_data_old |-> <<>>],
     watches |-> <<>>,
     trail |-> [trail |-> <<>>, decision_positions |-> <<>>, assignment |-> <<>>],
     unpropagated_lit_pos |-> 0,
     trivially_unsat |-> FALSE,
     stats |-> [contradictions |-> 0, propagations |-> 0,
                contradiction_since_last_garbage_collections |-> 0],
     analyze_state |-> [seen |-> <<>>, new_clause |-> <<>>, open |-> 0,
                        levels_seen |-> <<>>, levels_in_clause |-> <<>>],
     limits |-> [garbage_collection_conflicts |-> 3000]]

\* What one call of propagate shows of the search: the literals of the trail
\* it leaves and the literals of the clause it returns as contradiction.
PropagationResult(r) ==
    [trail |-> [i \in 1..Len(r.s.trail.trail) |-> r.s.trail.trail[i].lit],
     contradiction |-> IF r.confl = NoClause THEN <<>>
                       ELSE ClauseLits(r.s.clause_db.clause_data, r.confl)]

\* The loop of Solver::solve with the call of maybe_collect_garbage
\* (mod.rs:238) made when reduce is TRUE and left out otherwise: the verdict
\* and the results of the calls of propagate in order.
RECURSIVE SearchFrom(_, _, _)
SearchFrom(s, reduce, results) ==
    LET r == Propagate(s)
        log == Append(results, PropagationResult(r))
    IN IF r.confl # NoClause
       THEN LET a == AnalyzeContradiction(r.s, r.confl)
            IN IF a.result = "Done" THEN SearchFrom(a.s, reduce, log)
               ELSE [outcome |-> a.result, results |-> log]
       ELSE IF AssignmentComplete(r.s.trail)
       THEN [outcome |-> IF CheckAssignment(r.s) THEN "Sat" ELSE "Panic", results |-> log]
       ELSE LET s1 == IF reduce THEN MaybeCollectGarbage(r.s) ELSE r.s
                var == FindUnassignedVariable(s1.trail.assignment)
            IN IF var = 0 THEN [outcome |-> "Panic", results |-> log]
               ELSE SearchFrom([s1 EXCEPT !.trail = AssignLit(@, LitFromVar(var), Decision)],
                               reduce, log)

\* Solver::solve from its first line to its return: the solver afterwards and
\* the outcome ("Sat", "Unsat", or "Panic" where the code panics).
RECURSIVE SolveLoop(_)
SolveLoop(s) ==
    LET r == Propagate(s)
    IN IF r.confl # NoClause
       THEN LET a == AnalyzeContradiction(r.s, r.confl)
            IN IF a.result = "Done" THEN SolveLoop(a.s)
               ELSE [s |-> a.s, outcome |-> a.result]
       ELSE IF AssignmentComplete(r.s.trail)
       THEN [s |-> r.s, outcome |-> IF CheckAssignment(r.s) THEN "Sat" ELSE "Panic"]
       ELSE LET s1 == MaybeCollectGarbage(r.s)
                var == FindUnassignedVariable(s1.trail.assignment)
            IN IF var = 0 THEN [s |-> s1, outcome |-> "Panic"]
               ELSE SolveLoop([s1 EXCEPT !.trail = AssignLit(@, LitFromVar(var), Decision)])

Solve(s) ==
    IF s.trivially_unsat THEN [s |-> s, outcome |-> "Unsat"] ELSE SolveLoop(s)

\* Solver::from_dimacs, the loop adding the parsed clauses in order.
RECURSIVE AddAll(_, _)
AddAll(s, clauses) ==
    IF clauses = <<>> THEN s
    ELSE AddAll(AddClauseOp(s, Head(clauses)), Tail(clauses))

\* ------------------------------------------------------- DIMACS (dimacs.rs)
\* A text is a sequence of lines, already trimmed at the start. A line is a
\* comment ("c"), a problem line ("p") or a data line holding integer tokens;
\* a data line without tokens is an empty line.
MaxLines == 2
MaxTokens == 4
DimacsTokens == {-1, 0, 1, 2}
DimacsLines ==
    {[kind |-> "c", toks |-> <<>>], [kind |-> "p", toks |-> <<>>]}
    \cup {[kind |-> "data", toks |-> ts] : ts \in SeqUpTo(DimacsTokens, MaxTokens)}
DimacsTexts == SeqUpTo(DimacsLines, MaxLines)

IsZero(n) == n = 0
IsLiteralToken(n) == ~IsZero(n)

\* The filters of Dimacs::parse: empty, 'c' and 'p' lines are dropped.
IsParsedLine(line) == line.toks # <<>> /\ line.kind # "c" /\ line.kind # "p"

\* Dimacs::parse: one vector per remaining line, its tokens without the zeros.
RECURSIVE DimacsParse(_)
DimacsParse(text) ==
    IF text = <<>> THEN <<>>
    ELSE (IF IsParsedLine(Head(text))
          THEN <<SelectSeq(Head(text).toks, IsLiteralToken)>>
          ELSE <<>>) \o DimacsParse(Tail(text))

\* ------------------------------------------------ split borrow (util.rs)
\* Largest length of a vector handed to remaining.
MaxSlice == 4

\* Option<&mut T>: a reference is the position in memory it points to, the
\* elements of a slice lying at data, data + 1, ...
NoRef == [is_some |-> FALSE, at |-> 0]
SomeRef(p) == [is_some |-> TRUE, at |-> p]

\* slice.as_mut_ptr(): every slice of the model starts at position 0.
AsMutPtr(s) == 0

\* Remaining::get without the test of the used index.
RemainingGetAny(rem, i) ==
    IF i < rem.len THEN SomeRef(rem.data + i) ELSE NoRef

\* Remaining::get and Remaining::get_mut
RemainingGet(rem, i) ==
    IF rem.used_index # i /\ i < rem.len THEN SomeRef(rem.data + i) ELSE NoRef

\* remaining(slice, i): None, or the focus reference and the others view.
Remaining(s, i) ==
    IF i >= Len(s)
    THEN [is_some |-> FALSE, value |-> NoRef,
          remaining |-> [used_index |-> 0, data |-> 0, len |-> 0]]
    ELSE [is_some |-> TRUE, value |-> SomeRef(AsMutPtr(s) + i),
          remaining |-> [used_index |-> i, data |-> AsMutPtr(s), len |-> Len(s)]]

\* No call of remaining is in progress.
NoBorrow == [state |-> "none", index |-> 0, result |-> Remaining(<<>>, 0)]

\* ------------------------------------------------------------------ state
\* Largest number of add_clause calls where the arguments are kept on record.
InputAdds == 2

VARIABLES
    solver,             \* the Solver struct
    pc,                 \* where the caller is: "start" (no solver built yet),
                        \* "idle" (between calls), inside the loop of solve
                        \* ("propagate", "analyze", "check"), "done"
    conflicting_clause, \* the clause of PropagationResult::Contradiction in solve
    outcome,            \* what solve returned: "None" (not yet), "Sat", "Unsat",
                        \* or "Panic" when it panicked instead of returning
    formula,            \* the input so far: the bag of the literal sets of the
                        \* non-tautological clauses passed to add_clause
    num_added,          \* the number of add_clause calls so far
    last_ints,          \* the argument of the last add_clause call, where logged
    dimacs_text,        \* the text handed to from_dimacs
    dimacs_clauses,     \* what Dimacs::parse returned for it
    slice,              \* a vector handed to the split borrow of util.rs
    borrow              \* the call of remaining on it and what it returned

vars == <<solver, pc, conflicting_clause, outcome, formula, num_added,
          last_ints, dimacs_text, dimacs_clauses, slice, borrow>>

\* The literals an input clause may hold, as signed integers.
InputLits == (-MaxVar..MaxVar) \ {0}

\* The clauses add_clause is called with.
InputClauses == SeqUpTo(InputLits, MaxLen)

\* An input clause holding some literal and its negation.
IsTautology(ints) == \E i, j \in 1..Len(ints) : ints[i] = -ints[j]

\* The bag of the literal sets of the non-tautological clauses of a sequence.
RECURSIVE FormulaOf(_)
FormulaOf(clauses) ==
    IF clauses = <<>> THEN EmptyBag
    ELSE (IF IsTautology(Head(clauses)) THEN EmptyBag
          ELSE SetToBag({Range(Head(clauses))})) (+) FormulaOf(Tail(clauses))

\* let mut solver = Solver::new()
Init ==
    /\ solver = NewSolver
    /\ pc = "idle"
    /\ conflicting_clause = NoClause
    /\ outcome = "None"
    /\ formula = EmptyBag
    /\ num_added = 0
    /\ last_ints = <<>>
    /\ dimacs_text = <<>>
    /\ dimacs_clauses = <<>>
    /\ slice = <<>>
    /\ borrow = NoBorrow

\* solver.add_clause(ints)
AddClauseCall(ints) ==
    /\ pc = "idle"
    /\ solver' = AddClauseOp(solver, ints)
    /\ formula' = formula (+) FormulaOf(<<ints>>)
    /\ num_added' = num_added + 1
    /\ UNCHANGED <<pc, conflicting_clause, outcome, dimacs_text, dimacs_clauses, slice, borrow>>

AddClause(ints) ==
    /\ num_added < MaxClauses
    /\ AddClauseCall(ints)
    /\ UNCHANGED last_ints

\* solve() entering its loop without looking at trivially_unsat.
SolveBeginUnchecked ==
    /\ pc = "idle"
    /\ pc' = "propagate"
    /\ UNCHANGED <<solver, conflicting_clause, outcome, formula, num_added,
                   last_ints, dimacs_text, dimacs_clauses, slice, borrow>>

\* solve(): the check of trivially_unsat before the loop.
SolveBegin ==
    /\ pc = "idle"
    /\ IF solver.trivially_unsat
       THEN pc' = "done" /\ outcome' = "Unsat"
       ELSE pc' = "propagate" /\ outcome' = outcome
    /\ UNCHANGED <<solver, conflicting_clause, formula, num_added,
                   last_ints, dimacs_text, dimacs_clauses, slice, borrow>>

\* solve(): let result = self.propagate()
PropagateStep ==
    /\ pc = "propagate"
    /\ LET r == Propagate(solver)
       IN /\ solver' = r.s
          /\ conflicting_clause' = r.confl
          /\ pc' = IF r.confl # NoClause THEN "analyze" ELSE "check"
    /\ UNCHANGED <<outcome, formula, num_added, last_ints, dimacs_text, dimacs_clauses, slice, borrow>>

\* solve(): analyze_contradiction(conflicting_clause), Unsat or continue.
AnalyzeStep ==
    /\ pc = "analyze"
    /\ LET r == AnalyzeContradiction(solver, conflicting_clause)
       IN /\ solver' = r.s
          /\ pc' = IF r.result = "Done" THEN "propagate" ELSE "done"
          /\ outcome' = IF r.result = "Done" THEN outcome ELSE r.result
    /\ conflicting_clause' = NoClause
    /\ UNCHANGED <<formula, num_added, last_ints, dimacs_text, dimacs_clauses, slice, borrow>>

\* solve(): all variables are assigned; assert!(check_assignment()), return Sat.
ReturnSat ==
    /\ pc = "check"
    /\ AssignmentComplete(solver.trail)
    /\ pc' = "done"
    /\ outcome' = IF CheckAssignment(solver) THEN "Sat" ELSE "Panic"
    /\ UNCHANGED <<solver, conflicting_clause, formula, num_added,
                   last_ints, dimacs_text, dimacs_clauses, slice, borrow>>

\* solve(): maybe_collect_garbage(), then decide() and assign the decision;
\* unreachable!() when decide finds no variable.
DecideStep ==
    /\ pc = "check"
    /\ ~AssignmentComplete(solver.trail)
    /\ LET s1 == MaybeCollectGarbage(solver)
           var == FindUnassignedVariable(s1.trail.assignment)
       IN IF var = 0
          THEN solver' = s1 /\ pc' = "done" /\ outcome' = "Panic"
          ELSE /\ solver' = [s1 EXCEPT !.trail = AssignLit(@, LitFromVar(var), Decision)]
               /\ pc' = "propagate"
               /\ outcome' = outcome
    /\ UNCHANGED <<conflicting_clause, formula, num_added,
                   last_ints, dimacs_text, dimacs_clauses, slice, borrow>>

\* The steps of one call of solve().
SolveStep ==
    \/ SolveBegin
    \/ PropagateStep
    \/ AnalyzeStep
    \/ ReturnSat
    \/ DecideStep

Next ==
    \/ \E ints \in InputClauses : AddClause(ints)
    \/ SolveBegin
    \/ PropagateStep
    \/ AnalyzeStep
    \/ ReturnSat
    \/ DecideStep

\* Any clauses added to a new solver, then one call of solve().
Spec == Init /\ [][Next]_vars

\* solver.add_clause(ints), remembering the argument.
AddClauseLogged(ints) ==
    /\ num_added < InputAdds
    /\ AddClauseCall(ints)
    /\ last_ints' = ints

NextInput ==
    \/ \E ints \in InputClauses : AddClauseLogged(ints)
    \/ SolveBegin
    \/ PropagateStep
    \/ AnalyzeStep
    \/ ReturnSat
    \/ DecideStep

\* Up to InputAdds clauses added with their arguments on record, then solve().
SpecInput == Init /\ [][NextInput]_vars

\* The six formulas of the scenario table, clause by clause.
Scenarios ==
    << << <<1>> >>,
       << <<1>>, <<-1>> >>,
       << <<-1, 2>>, <<-1, -2>>, <<1>> >>,
       << <<1, 2>>, <<-1, 2>>, <<1, -2>>, <<-1, -2>> >>,
       << <<1, 2, 3>>, <<-1, -2>>, <<-2, -3>>, <<-1, -3>> >>,
       << <<1, -2, -3>>, <<2, 3, 1>>, <<1>>, <<2>> >> >>

\* solver.add_clause of the next clause of a scenario whose first clauses are
\* the clauses added so far.
AddScenarioClause ==
    \E k \in 1..Len(Scenarios) :
        /\ num_added < Len(Scenarios[k])
        /\ formula = FormulaOf(SubSeq(Scenarios[k], 1, num_added))
        /\ AddClauseCall(Scenarios[k][num_added + 1])
        /\ UNCHANGED last_ints

NextScenarios ==
    \/ AddScenarioClause
    \/ SolveBegin
    \/ PropagateStep
    \/ AnalyzeStep
    \/ ReturnSat
    \/ DecideStep

\* The clauses of a scenario added in their order, with solve() called after
\* any number of them.
SpecScenarios == Init /\ [][NextScenarios]_vars

\* Clauses over four variables whose search learns a clause, asserts its
\* literal above level 0 and backjumps past it at the next conflict.
ClauseFamily ==
    { <<-4>>, <<-1, -2, 3>>, <<-2, -3>>, <<-1, 2, 3>>, <<-1, 2, -3, 4>> }

\* The number of add_clause calls with clauses of the family.
MaxFamilyAdds == 5

\* solver.add_clause of a clause of the family.
AddFamilyClause(ints) ==
    /\ num_added < MaxFamilyAdds
    /\ AddClauseCall(ints)
    /\ UNCHANGED last_ints

NextFamily ==
    \/ \E ints \in ClauseFamily : AddFamilyClause(ints)
    \/ SolveBegin
    \/ PropagateStep
    \/ AnalyzeStep
    \/ ReturnSat
    \/ DecideStep

\* Clauses of the family added in any order, then one call of solve().
SpecFamily == Init /\ [][NextFamily]_vars

\* Clauses over four variables whose search learns the clause [-2, -3],
\* backjumps, and at the next conflict asserts 3 while 2 is unassigned again.
RelearnFamily ==
    { <<-2, -3, 4>>, <<-2, -3, -4>>, <<-1, 3, 4>>, <<-1, 3, -4>> }

NextRelearn ==
    \/ \E ints \in RelearnFamily : AddFamilyClause(ints)
    \/ SolveBegin
    \/ PropagateStep
    \/ AnalyzeStep
    \/ ReturnSat
    \/ DecideStep

\* Clauses of the second family added in any order, then one call of solve().
SpecRelearn == Init /\ [][NextRelearn]_vars

\* Clauses over seven variables whose search learns [-1, -2, -3] (glue 3)
\* and [7, -2, 3, -4] (glue 3), then [7, -1, 4] (glue 3) whose backjump to
\* level 1 frees the first two, so that the next reduction has two candidates
\* next to a clause with is_reason set.
ReduceFamily ==
    { <<-7>>,
      <<-1, -2, -3, 4>>, <<-1, -2, -3, -4>>,
      <<7, -2, 3, -4, 5>>, <<7, -2, 3, -4, -5>>,
      <<7, -1, 4, 6>>, <<7, -1, 4, -6>> }

\* solver.add_clause of a clause of the family that was not added before.
AddReduceClause(ints) ==
    /\ ~BagIn(Range(ints), formula)
    /\ AddClauseCall(ints)
    /\ UNCHANGED last_ints

NextReduce ==
    \/ \E ints \in ReduceFamily : AddReduceClause(ints)
    \/ SolveBegin
    \/ PropagateStep
    \/ AnalyzeStep
    \/ ReturnSat
    \/ DecideStep

\* Each clause of the third family added at most once, in any order, then
\* one call of solve().
SpecReduce == Init /\ [][NextReduce]_vars

\* The elements of the vectors and the indices remaining is called with, one
\* past the largest length included.
SliceValues == {0, 1}
SliceIndices == 0..(MaxSlice + 1)

\* let mut data = vec![...]
InitRemaining ==
    /\ solver = NewSolver
    /\ pc = "idle"
    /\ conflicting_clause = NoClause
    /\ outcome = "None"
    /\ formula = EmptyBag
    /\ num_added = 0
    /\ last_ints = <<>>
    /\ dimacs_text = <<>>
    /\ dimacs_clauses = <<>>
    /\ slice \in SeqUpTo(SliceValues, MaxSlice)
    /\ borrow = NoBorrow

solver_vars == <<solver, pc, conflicting_clause, outcome, formula, num_added,
                 last_ints, dimacs_text, dimacs_clauses>>

\* let r = remaining(&mut data, i)
CallRemaining(i) ==
    /\ borrow.state = "none"
    /\ borrow' = [state |-> "returned", index |-> i, result |-> Remaining(slice, i)]
    /\ UNCHANGED <<solver_vars, slice>>

\* *val = v through the focus reference
WriteFocus(v) ==
    /\ borrow.state = "returned" /\ borrow.result.is_some
    /\ slice' = [slice EXCEPT ![borrow.result.value.at + 1] = v]
    /\ UNCHANGED <<solver_vars, borrow>>

\* *remaining.get_mut(j).unwrap() = v through the others view
WriteOther(j, v) ==
    /\ borrow.state = "returned" /\ borrow.result.is_some
    /\ RemainingGet(borrow.result.remaining, j).is_some
    /\ slice' = [slice EXCEPT ![RemainingGet(borrow.result.remaining, j).at + 1] = v]
    /\ UNCHANGED <<solver_vars, borrow>>

\* The references go out of scope.
EndBorrow ==
    /\ borrow.state = "returned"
    /\ borrow' = NoBorrow
    /\ UNCHANGED <<solver_vars, slice>>

NextRemaining ==
    \/ \E i \in SliceIndices : CallRemaining(i)
    \/ \E v \in SliceValues : WriteFocus(v)
    \/ \E j \in SliceIndices, v \in SliceValues : WriteOther(j, v)
    \/ EndBorrow

\* Calls of remaining on a vector, with writes through what it returned.
SpecRemaining == InitRemaining /\ [][NextRemaining]_vars

\* No solver yet: a DIMACS text is about to be handed to from_dimacs.
InitDimacs ==
    /\ solver = NewSolver
    /\ pc = "start"
    /\ conflicting_clause = NoClause
    /\ outcome = "None"
    /\ formula = EmptyBag
    /\ num_added = 0
    /\ last_ints = <<>>
    /\ dimacs_text \in DimacsTexts
    /\ dimacs_clauses = <<>>
    /\ slice = <<>>
    /\ borrow = NoBorrow

\* Solver::from_dimacs(dimacs_text)
FromDimacs ==
    /\ pc = "start"
    /\ dimacs_clauses' = DimacsParse(dimacs_text)
    /\ solver' = AddAll(NewSolver, dimacs_clauses')
    /\ formula' = FormulaOf(dimacs_clauses')
    /\ num_added' = Len(dimacs_clauses')
    /\ pc' = "idle"
    /\ UNCHANGED <<conflicting_clause, outcome, last_ints, dimacs_text, slice, borrow>>

NextDimacs == FromDimacs

\* One call of from_dimacs on a text of up to MaxLines lines.
SpecDimacs == InitDimacs /\ [][NextDimacs]_vars

\* solve() runs to its return once called.
FairSpec == Spec /\ WF_vars(SolveStep)

\* ------------------------------------------------------ what solve returns
\* The truth assignments of the variables and the value of a literal in one.
Assignments == [1..MaxVar -> BOOLEAN]
Holds(m, x) == IF x > 0 THEN m[x] ELSE ~m[-x]

\* Some truth assignment makes a literal of every clause of f true.
Satisfiable(f) == \E m \in Assignments : \A c \in f : \E x \in c : Holds(m, x)

ReturnedSat == pc = "done" /\ outcome = "Sat"
ReturnedUnsat == pc = "done" /\ outcome = "Unsat"

\* C1: when solve returns Sat(m), every clause of the normalized input, unit
\* or longer, has a literal that m.lit reports true.
C1_SatModelSatisfiesFormula ==
    ReturnedSat =>
        \A c \in BagToSet(formula) : \E x \in c : ModelLit(solver, x)

\* solve returned Sat for a unit clause and a longer clause, after a decision
\* and a conflict.
C1_Witness ==
    /\ ReturnedSat
    /\ \E c, d \in BagToSet(formula) : Cardinality(c) = 1 /\ Cardinality(d) >= 2
    /\ solver.stats.contradictions >= 1
    /\ CurrentDecisionLevel(solver.trail) >= 1

\* C2: when solve returns Unsat, no truth assignment satisfies all the input
\* clauses.
C2_UnsatIsUnsatisfiable ==
    ReturnedUnsat => ~Satisfiable(BagToSet(formula))

\* solve returned Unsat out of conflict analysis: propagation from a unit
\* clause through two longer clauses ran into a conflict at decision level 0.
C2_Witness ==
    /\ ReturnedUnsat
    /\ ~solver.trivially_unsat
    /\ solver.stats.contradictions >= 1
    /\ Len(solver.trail.trail) >= 2
    /\ \E c, d \in BagToSet(formula) :
           c # d /\ Cardinality(c) >= 2 /\ Cardinality(d) >= 2

\* C3: once called, solve() comes to its return, and what it returns is Sat
\* or Unsat.
C3_SolveReturnsSatOrUnsat ==
    (pc = "propagate") ~> (pc = "done" /\ outcome \in {"Sat", "Unsat"})

\* The input holds the empty clause, or two unit clauses of opposite literals.
HasEmptyClause == {} \in BagToSet(formula)
HasOppositeUnits == \E x \in InputLits : {x} \in BagToSet(formula) /\ {-x} \in BagToSet(formula)

\* C4: after an empty clause or two opposite unit clauses were added, the
\* solver is flagged trivially unsatisfiable, and solve() returns Unsat in its
\* first step leaving the whole solver (trail, propagation cursor, stats) as
\* it was.
C4_TriviallyUnsatReturnsAtOnce ==
    [][ (pc = "idle" /\ (HasEmptyClause \/ HasOppositeUnits)) =>
            /\ solver.trivially_unsat
            /\ pc' # "idle" => (pc' = "done" /\ outcome' = "Unsat" /\ solver' = solver) ]_vars

\* solve returned Unsat for opposite unit clauses, with a unit on the trail
\* that was never propagated into the clause of the arena.
C4_Witness ==
    /\ ReturnedUnsat
    /\ HasOppositeUnits /\ ~HasEmptyClause
    /\ Len(solver.clause_db.clause_data) > 0
    /\ Len(solver.trail.trail) >= 1
    /\ solver.unpropagated_lit_pos = 0
    /\ solver.stats.propagations = 0 /\ solver.stats.contradictions = 0

\* The largest variable of the input, 0 without literals.
LargestVar ==
    LET vs == {Abs(x) : x \in UNION BagToSet(formula)}
    IN IF vs = {} THEN 0 ELSE CHOOSE v \in vs : \A w \in vs : w <= v

\* C5: when solve returns Sat(m) and n is the largest variable of the input,
\* as_vec has n entries, every variable 1..n has a value, entry i is +i for a
\* true and -i for a false variable, lit(i) is true iff the entry is +i, and
\* lit(-i) is the negation of lit(i).
C5_ModelVectorIsTotal ==
    ReturnedSat =>
        /\ Len(ModelAsVec(solver)) = LargestVar
        /\ \A i \in 1..LargestVar :
            /\ ~IsLitUnassigned(solver.trail.assignment, LitNew(i))
            /\ ModelAsVec(solver)[i] =
                  (IF AssignOf(solver.trail.assignment, LitNew(i)).status THEN i ELSE -i)
            /\ ModelLit(solver, i) <=> (ModelAsVec(solver)[i] = i)
            /\ ModelLit(solver, -i) <=> ~ModelLit(solver, i)

\* The step is an add_clause call.
IsAddStep == num_added' = num_added + 1

\* C6: add_clause of a tautological clause leaves the arena, the watch lists,
\* the trail and the trivially-unsat flag as they were, and solve() gives the
\* verdict it would have given without the call.
C6_TautologyIsDropped ==
    [][ (IsAddStep /\ IsTautology(last_ints')) =>
            /\ solver'.clause_db = solver.clause_db
            /\ solver'.watches = solver.watches
            /\ solver'.trail = solver.trail
            /\ solver'.trivially_unsat = solver.trivially_unsat
            /\ Solve(solver').outcome = Solve(solver).outcome ]_vars

\* A tautological clause with a variable not seen before was added after a
\* clause of the arena, and solve has returned.
C6_Witness ==
    /\ pc = "done" /\ outcome \in {"Sat", "Unsat"}
    /\ num_added = 2
    /\ IsTautology(last_ints)
    /\ \E x \in Range(last_ints) : Abs(x) > LargestVar
    /\ Len(solver.clause_db.clause_data) > 0

\* ints without the later occurrences of a repeated literal.
RECURSIVE RemoveRepeats(_)
RemoveRepeats(ints) ==
    IF ints = <<>> THEN <<>>
    ELSE LET init == RemoveRepeats(SubSeq(ints, 1, Len(ints) - 1))
             x == ints[Len(ints)]
         IN IF x \in Range(init) THEN init ELSE Append(init, x)

\* How often the literal x is among the literals lits.
Occurrences(lits, x) == Cardinality({i \in 1..Len(lits) : lits[i] = LitNew(x)})

\* C7: add_clause(c) of a non-tautological clause leaves the solver in the
\* state add_clause(c without its repeated literals) leaves it in, and the
\* clause it stores (in the arena, or on the trail for a unit clause) holds
\* each literal of c exactly once.
C7_RepeatedLiteralsAreRemoved ==
    [][ (IsAddStep /\ ~IsTautology(last_ints')) =>
            /\ solver' = AddClauseOp(solver, RemoveRepeats(last_ints'))
            /\ LET cd == solver'.clause_db.clause_data
                   h == Len(solver.clause_db.clause_data)
                   n == Cardinality(Range(last_ints'))
                   new_trail == SubSeq(solver'.trail.trail, Len(solver.trail.trail) + 1,
                                       Len(solver'.trail.trail))
               IN /\ n >= 2 =>
                        /\ Len(cd) = h + OffLits + n
                        /\ ClauseLen(cd, h) = n
                        /\ \A x \in Range(last_ints') : Occurrences(ClauseLits(cd, h), x) = 1
                  /\ n < 2 => cd = solver.clause_db.clause_data
                  /\ (n = 1 /\ ~solver'.trivially_unsat) =>
                        /\ Len(new_trail) = 1
                        /\ new_trail[1].lit = LitNew(last_ints'[1]) ]_vars

\* A clause with a literal repeated at positions apart was stored in the arena.
C7_Witness ==
    /\ pc = "idle" /\ num_added = 2
    /\ Len(last_ints) = 3 /\ last_ints[1] = last_ints[3] /\ last_ints[2] # last_ints[1]
    /\ ~IsTautology(last_ints)
    /\ Len(ClauseOffsets(solver.clause_db.clause_data)) = 2

\* A number that orders the clauses (as sets of signed integers).
RECURSIVE ClauseKey(_)
ClauseKey(c) ==
    IF c = {} THEN 0
    ELSE LET x == CHOOSE x \in c : TRUE
         IN 2 ^ LitToIdx(LitNew(x)) + ClauseKey(c \ {x})

\* The literals of a clause in ascending order.
RECURSIVE SortedInts(_)
SortedInts(c) ==
    IF c = {} THEN <<>>
    ELSE LET x == CHOOSE x \in c : \A y \in c : x <= y
         IN <<x>> \o SortedInts(c \ {x})

\* The clauses of a bag in the one order fixed by ClauseKey.
RECURSIVE CanonicalOrder(_)
CanonicalOrder(b) ==
    IF BagToSet(b) = {} THEN <<>>
    ELSE LET c == CHOOSE c \in BagToSet(b) :
                      \A d \in BagToSet(b) : ClauseKey(c) <= ClauseKey(d)
         IN <<SortedInts(c)>> \o CanonicalOrder(b (-) SetToBag({c}))

\* The signed integers of the clause at h of the arena.
ArenaClause(cd, h) == {x \in InputLits : LitNew(x) \in Range(ClauseLits(cd, h))}

ScenarioDone(k) ==
    /\ pc = "done"
    /\ num_added = Len(Scenarios[k])
    /\ formula = FormulaOf(Scenarios[k])

\* C9: the verdicts of the six scenarios: {1} is Sat with 1 true; {1},{-1}
\* is Unsat; {-1 2},{-1 -2},{1} is Unsat by a conflict at decision level 0
\* after propagating 1; the four binary clauses over 1 and 2 are Unsat;
\* {1 2 3},{-1 -2},{-2 -3},{-1 -3} is Sat; {1 -2 -3},{2 3 1},{1},{2} is Sat
\* with 1 and 2 true.
C9_ScenarioVerdicts ==
    /\ ScenarioDone(1) => (outcome = "Sat" /\ ModelLit(solver, 1))
    /\ ScenarioDone(2) => outcome = "Unsat"
    /\ ScenarioDone(3) =>
          /\ outcome = "Unsat"
          /\ ~solver.trivially_unsat
          /\ CurrentDecisionLevel(solver.trail) = 0
          /\ solver.trail.trail[1].lit = LitNew(1)
          /\ solver.stats.propagations >= 1
          /\ solver.stats.contradictions = 1
    /\ ScenarioDone(4) => outcome = "Unsat"
    /\ ScenarioDone(5) => outcome = "Sat"
    /\ ScenarioDone(6) => (outcome = "Sat" /\ ModelLit(solver, 1) /\ ModelLit(solver, 2))

\* solve has returned for the third scenario, with a propagation and a
\* contradiction counted.
C9_Witness ==
    /\ ScenarioDone(3)
    /\ solver.stats.propagations = 1
    /\ solver.stats.contradictions = 1

\* The integer tokens of the data lines of a text, in reading order.
RECURSIVE DataTokens(_)
DataTokens(text) ==
    IF text = <<>> THEN <<>>
    ELSE (IF Head(text).kind = "data" THEN Head(text).toks ELSE <<>>)
         \o DataTokens(Tail(text))

\* The clauses of a token stream: each 0 ends the clause collected in cur.
RECURSIVE ZeroTerminated(_, _)
ZeroTerminated(toks, cur) ==
    IF toks = <<>> THEN <<>>
    ELSE IF Head(toks) = 0 THEN <<cur>> \o ZeroTerminated(Tail(toks), <<>>)
    ELSE ZeroTerminated(Tail(toks), Append(cur, Head(toks)))

\* Every clause of the text is closed by its 0.
EndsWithZero(text) ==
    DataTokens(text) = <<>> \/ DataTokens(text)[Len(DataTokens(text))] = 0

\* C10: the parser returns one vector per 0-terminated clause of the text:
\* 'c' and 'p' lines are ignored, a 0 ends the clause wherever it stands in a
\* line, and a clause may run over several lines.
C10_OneVectorPerZeroTerminatedClause ==
    (pc # "start" /\ EndsWithZero(dimacs_text)) =>
        dimacs_clauses = ZeroTerminated(DataTokens(dimacs_text), <<>>)

\* C11: remaining(slice, i) returns None exactly when i is out of bounds;
\* otherwise the focus is element i, the others view gives element j for
\* every in-bounds j # i and None for j = i and for j >= len, and no index of
\* the view reaches the element of the focus.
C11_SplitBorrowIsDisjoint ==
    borrow.state = "returned" =>
        LET i == borrow.index
            r == borrow.result
        IN /\ r.is_some <=> i < Len(slice)
           /\ r.is_some =>
                /\ r.value = SomeRef(i)
                /\ \A j \in SliceIndices :
                    /\ RemainingGet(r.remaining, j) =
                          (IF j # i /\ j < Len(slice) THEN SomeRef(j) ELSE NoRef)
                    /\ RemainingGet(r.remaining, j) # r.value

\* remaining returned the focus of an inner element of a vector of four, as
\* in remaining_test.
C11_Witness ==
    /\ borrow.state = "returned" /\ borrow.result.is_some
    /\ Len(slice) = MaxSlice /\ borrow.index = 2
    /\ RemainingGet(borrow.result.remaining, 3).is_some

\* The step of solve() that calls maybe_collect_garbage and then decides.
IsDecideStep == pc = "check" /\ ~AssignmentComplete(solver.trail) /\ pc' # pc

ConflictsSinceReduction(s) == s.stats.contradiction_since_last_garbage_collections
ReductionLimit(s) == s.limits.garbage_collection_conflicts

\* C12: a call of maybe_collect_garbage with fewer conflicts since the last
\* reduction than the limit does nothing: the arena, the watch lists and the
\* reasons of the trail are as before (the decision is appended after them),
\* and the limit and the counter are unchanged.
C12_NoReductionBelowLimit ==
    [][(IsDecideStep /\ ConflictsSinceReduction(solver) < ReductionLimit(solver))
         => /\ ReductionLimit(solver') = ReductionLimit(solver)
            /\ ConflictsSinceReduction(solver') = ConflictsSinceReduction(solver)
            /\ solver'.clause_db = solver.clause_db
            /\ solver'.watches = solver.watches
            /\ SubSeq(solver'.trail.trail, 1, Len(solver.trail.trail)) = solver.trail.trail]_vars

\* One call of propagate by solve(); it returned Contradiction iff the next
\* step is the analysis.
IsPropagateStep == pc = "propagate" /\ pc' # pc
ReturnsContradiction == pc' = "analyze"

\* propagate counts one conflict per Contradiction it returns and one
\* propagation per literal it appends to the trail.
CountsConflictsAndPropagations ==
    /\ solver'.stats.contradictions =
          solver.stats.contradictions + (IF ReturnsContradiction THEN 1 ELSE 0)
    /\ solver'.stats.propagations - solver.stats.propagations =
          Len(solver'.trail.trail) - Len(solver.trail.trail)

\* C13: over a call of propagate 'conflicts' grows by one exactly when a
\* Contradiction is returned, 'propagations' by one per literal assigned, and
\* 'conflicts since last reduction' by one per conflict; right after a
\* reduction the latter is zero.
C13_StatsTrackSearch ==
    [][/\ IsPropagateStep =>
            /\ CountsConflictsAndPropagations
            /\ ConflictsSinceReduction(solver') =
                  ConflictsSinceReduction(solver) + (IF ReturnsContradiction THEN 1 ELSE 0)
       /\ (IsDecideStep /\ ReductionLimit(solver') # ReductionLimit(solver)) =>
            ConflictsSinceReduction(solver') = 0]_vars

\* A step of solve() in which maybe_collect_garbage ran a reduction.
IsReductionStep == IsDecideStep /\ ReductionLimit(solver') # ReductionLimit(solver)

\* Limits::default()
InitialLimit == NewSolver.limits.garbage_collection_conflicts

\* C14: a reduction resets the conflicts-since-last-reduction counter to 0
\* and multiplies the limit by 1.05 rounded down (the single precision product
\* may fall one short of the exact one), so the limit grows strictly; and a
\* reduction that is not the first comes at least 'limit' conflicts after the
\* one before it, so that many conflicts have been counted in all.
C14_ReductionsAreSpacedByLimit ==
    [][IsReductionStep =>
         /\ ConflictsSinceReduction(solver') = 0
         /\ ReductionLimit(solver') \in
               {(ReductionLimit(solver) * 105) \div 100 - 1,
                (ReductionLimit(solver) * 105) \div 100}
         /\ ReductionLimit(solver') > ReductionLimit(solver)
         /\ ReductionLimit(solver) # InitialLimit =>
               solver.stats.contradictions >= ReductionLimit(solver)]_vars

\* The states between calls and between the iterations of the loop of solve().
AfterOuterIteration == pc \in {"idle", "propagate", "done"}

\* The number of entries of the watch list of lit that name clause h.
WatchCount(s, lit, h) ==
    LET ws == s.watches[LitToIdx(lit) + 1]
    IN Cardinality({i \in 1..Len(ws) : ws[i] = h})

\* The literals that have a watch list.
WatchedLits(s) == {l \in 2..(Len(s.watches) + 1) : TRUE}

\* Clause h is watched once by its literal at index 0, once by its literal
\* at index 1 and by no other literal.
WatchedExactlyTwice(s, h) ==
    LET cd == s.clause_db.clause_data
    IN \A l \in WatchedLits(s) :
          WatchCount(s, l, h) =
             IF l \in {ClauseLit(cd, h, 0), ClauseLit(cd, h, 1)} THEN 1 ELSE 0

\* C15: after every add_clause and every outer iteration of solve, every
\* clause of the arena of length >= 2 is in exactly two watch lists, those of
\* its literals at index 0 and 1, once in each.
C15_EveryClauseWatchedTwice ==
    AfterOuterIteration =>
        \A i \in 1..Len(ClauseOffsets(solver.clause_db.clause_data)) :
            LET h == ClauseOffsets(solver.clause_db.clause_data)[i]
            IN ClauseLen(solver.clause_db.clause_data, h) >= 2
                  => WatchedExactlyTwice(solver, h)

\* The trail entries whose reason is a clause, as positions of the trail.
PropagatedEntries(s) ==
    {p \in 1..Len(s.trail.trail) : s.trail.trail[p].reason.kind = "Propagated"}

\* Every literal of clause h but the one at index pos is false and was
\* assigned at a decision level <= that of the literal at pos.
OthersFalseAtLowerLevel(s, h, pos) ==
    LET cd == s.clause_db.clause_data
        l == ClauseLit(cd, h, pos)
    IN \A k \in 0..(ClauseLen(cd, h) - 1) :
          k # pos =>
             /\ IsLitUnsatisfied(s.trail.assignment, ClauseLit(cd, h, k))
             /\ GetDecisionLevel(s.trail, ClauseLit(cd, h, k)) <= GetDecisionLevel(s.trail, l)

\* Clause h is a reason of l with l at index pos.
IsReasonAt(s, h, l, pos) ==
    /\ ClauseLit(s.clause_db.clause_data, h, pos) = l
    /\ OthersFalseAtLowerLevel(s, h, pos)

\* insert_clause(lits, None) stores 0 as the glue of an input clause.
IsInputClause(s, h) == ClauseGlue(s.clause_db.clause_data, h) = 0

HasIsReason(s, h) == IsReasonWord(Word(s.clause_db.clause_data, h + OffFlags))

\* C17: every clause that a trail entry names as its Propagated reason has
\* its is_reason flag set, propagate having set it when it assigned the
\* literal.
C17_ReasonClausesAreFlagged ==
    \A p \in PropagatedEntries(solver) :
        HasIsReason(solver, solver.trail.trail[p].reason.cls)

\* The clauses of the arena, as offsets.
ArenaOffsets(s) == Range(ClauseOffsets(s.clause_db.clause_data))

\* Some trail entry has reason Propagated(h).
IsReferenced(s, h) ==
    \E p \in PropagatedEntries(s) : s.trail.trail[p].reason.cls = h

\* C18: a clause with is_reason set is the Propagated reason of some trail
\* entry: the flag set by conflict analysis is cleared when backtracking pops
\* the entry, and reduction keeps the flags of the clauses it keeps.
C18_FlaggedClauseIsReferenced ==
    \A h \in ArenaOffsets(solver) : HasIsReason(solver, h) => IsReferenced(solver, h)

\* Two learned clauses: the entry of the first was popped by a backjump,
\* which cleared its flag; the second is flagged and is the reason of the
\* literal just asserted.
C18_Witness ==
    \E h1, h2 \in ArenaOffsets(solver) :
        /\ ~IsInputClause(solver, h1) /\ ~IsInputClause(solver, h2)
        /\ ~HasIsReason(solver, h1) /\ ~IsReferenced(solver, h1)
        /\ HasIsReason(solver, h2) /\ IsReferenced(solver, h2)

\* The decision level recorded for the literal of the entry at position p.
LevelAt(s, p) == GetDecisionLevel(s.trail, s.trail.trail[p].lit)

\* C19: the decision levels of the literals along the trail never decrease
\* from the first entry to the last.
C19_TrailLevelsNonDecreasing ==
    \A p, q \in 1..Len(solver.trail.trail) :
        p < q => LevelAt(solver, p) <= LevelAt(solver, q)

\* After a backjump to level 1: the last entry is the literal asserted by the
\* learned clause, at the level of the decision before it.
C19_Witness ==
    LET n == Len(solver.trail.trail)
    IN /\ n >= 2
       /\ solver.trail.trail[n].reason.kind = "Propagated"
       /\ ~IsInputClause(solver, solver.trail.trail[n].reason.cls)
       /\ solver.trail.trail[n - 1].reason = Decision
       /\ LevelAt(solver, n) = 1

\* The number of Decision entries among the first p entries of the trail.
DecisionsUpTo(s, p) ==
    Cardinality({q \in 1..p : s.trail.trail[q].reason = Decision})

\* C20: the level recorded for a trail literal is the number of Decision
\* entries up to and including its own entry, and decision_positions[k] is
\* the (0-based) trail index of the (k+1)-th decision.
C20_LevelCountsDecisions ==
    /\ \A p \in 1..Len(solver.trail.trail) :
          LevelAt(solver, p) = DecisionsUpTo(solver, p)
    /\ Len(solver.trail.decision_positions) = DecisionsUpTo(solver, Len(solver.trail.trail))
    /\ \A k \in 1..Len(solver.trail.decision_positions) :
          LET p == solver.trail.decision_positions[k] + 1
          IN /\ p \in 1..Len(solver.trail.trail)
             /\ solver.trail.trail[p].reason = Decision
             /\ DecisionsUpTo(solver, p) = k

\* Two decisions with a propagated literal between them: the second decision
\* is the third entry of the trail and opens level 2.
C20_Witness ==
    /\ solver.trail.decision_positions = <<0, 2>>
    /\ solver.trail.trail[2].reason.kind = "Propagated"
    /\ LevelAt(solver, 2) = 1
    /\ LevelAt(solver, 3) = 2

\* propagate has just returned Done to solve().
PropagateReturnedDone == pc = "check"

\* The literals of the clause at h, as 0-based positions.
Positions(s, h) == 0..(ClauseLen(s.clause_db.clause_data, h) - 1)

\* Every literal of the clause at h is false.
AllLitsFalse(s, h) ==
    \A k \in Positions(s, h) :
        IsLitUnsatisfied(s.trail.assignment, ClauseLit(s.clause_db.clause_data, h, k))

\* Exactly one literal of the clause at h is unassigned, all others are false.
IsUnitClause(s, h) ==
    \E k \in Positions(s, h) :
        /\ IsLitUnassigned(s.trail.assignment, ClauseLit(s.clause_db.clause_data, h, k))
        /\ \A j \in Positions(s, h) \ {k} :
              IsLitUnsatisfied(s.trail.assignment, ClauseLit(s.clause_db.clause_data, h, j))

\* C21: when propagate returns Done the cursor is the trail length, and no
\* clause of length >= 2 of the arena is all false or unit under the trail.
C21_DoneMeansFullyPropagated ==
    PropagateReturnedDone =>
        /\ solver.unpropagated_lit_pos = Len(solver.trail.trail)
        /\ \A h \in ArenaOffsets(solver) :
              ClauseLen(solver.clause_db.clause_data, h) >= 2 =>
                 ~AllLitsFalse(solver, h) /\ ~IsUnitClause(solver, h)

\* The first position (1-based) of value x in sequence q, 0 if there is none.
IndexOf(q, x) ==
    IF \E i \in 1..Len(q) : q[i] = x
    THEN CHOOSE i \in 1..Len(q) : q[i] = x /\ \A j \in 1..(i - 1) : q[j] # x
    ELSE 0

\* Sequence a is a prefix of sequence b.
IsPrefix(a, b) == Len(a) <= Len(b) /\ \A i \in 1..Len(a) : a[i] = b[i]

\* The entries of sequence q after position i.
After(q, i) == SubSeq(q, i + 1, Len(q))

\* The trail positions from the cursor on whose literal is the negation of a
\* watched literal (index 0 or 1) of the clause at h.
PendingWatchers(s, h) ==
    {p \in (s.unpropagated_lit_pos + 1)..Len(s.trail.trail) :
        Neg(s.trail.trail[p].lit) \in {ClauseLit(s.clause_db.clause_data, h, 0),
                                       ClauseLit(s.clause_db.clause_data, h, 1)}}

\* The trail literal propagate was processing when it found the clause at h
\* all false: the first one from the cursor on that watches h.
ConflictLit(s, h) ==
    s.trail.trail[CHOOSE p \in PendingWatchers(s, h) :
                     \A q \in PendingWatchers(s, h) : p <= q].lit

\* The watch list of the negation of trail literal lit.
WatchesOfNeg(s, lit) == s.watches[LitToIdx(Neg(lit)) + 1]

\* C22: when propagate returns Contradiction(h), every literal of h is
\* false and the stored cursor is as before the call; the watch entries that
\* followed h in the list being processed before the call are all still
\* there, in order, and visiting the entries after h once the contradiction
\* is found keeps them and changes nothing (no literal is assigned).
C22_ContradictionStopsPropagation ==
    [][(IsPropagateStep /\ ReturnsContradiction) =>
         LET h == conflicting_clause'
             lit == ConflictLit(solver', h)
             old == WatchesOfNeg(solver, lit)
             new == WatchesOfNeg(solver', lit)
             rest == After(new, IndexOf(new, h))
         IN /\ AllLitsFalse(solver', h)
            /\ solver'.unpropagated_lit_pos = solver.unpropagated_lit_pos
            /\ PendingWatchers(solver', h) # {}
            /\ IndexOf(new, h) > 0
            /\ IndexOf(old, h) > 0 =>
                  IsPrefix(After(old, IndexOf(old, h)), rest)
            /\ RetainWatches(solver', lit, rest, <<>>, h)
                  = [s |-> solver', kept |-> rest, confl |-> h]]_vars

\* propagate returned Contradiction(h) while watch entries of the processed
\* literal were still to be visited after h.
C22_Witness ==
    /\ pc = "analyze"
    /\ PendingWatchers(solver, conflicting_clause) # {}
    /\ LET ws == WatchesOfNeg(solver, ConflictLit(solver, conflicting_clause))
       IN /\ IndexOf(ws, conflicting_clause) > 0
          /\ After(ws, IndexOf(ws, conflicting_clause)) # <<>>
          /\ Len(solver.trail.trail) > solver.unpropagated_lit_pos + 1

\* One call of analyze_contradiction by solve() that returned Done: a clause
\* was learned, left in analyze_state.new_clause.
IsLearnStep == pc = "analyze" /\ pc' = "propagate"

\* C23: at the moment of learning, under the trail before the backjump,
\* every literal of the learned clause is false, its last literal (the
\* negated UIP) is at the current decision level and is the only one there,
\* and all others are at levels <= the backjump level, which is below the
\* current level.
C23_LearnedClauseIsAsserting ==
    [][IsLearnStep =>
         LET learned == solver'.analyze_state.new_clause
             t == solver.trail
             backjump_level == CurrentDecisionLevel(solver'.trail)
         IN /\ CurrentDecisionLevel(t) >= 1
            /\ Len(learned) >= 1
            /\ \A i \in 1..Len(learned) : IsLitUnsatisfied(t.assignment, learned[i])
            /\ GetDecisionLevel(t, learned[Len(learned)]) = CurrentDecisionLevel(t)
            /\ \A i \in 1..(Len(learned) - 1) :
                  GetDecisionLevel(t, learned[i]) <= backjump_level
            /\ backjump_level < CurrentDecisionLevel(t)]_vars

\* A clause of two or more literals was just learned from a conflict at
\* level 2 or above: its negated UIP is the last trail entry, asserted at the
\* backjump level 1 or above.
C23_Witness ==
    LET learned == solver.analyze_state.new_clause
        n == Len(solver.trail.trail)
    IN /\ pc = "propagate"
       /\ Len(learned) >= 2
       /\ n >= 2
       /\ solver.unpropagated_lit_pos = n - 1
       /\ solver.trail.trail[n].lit = learned[Len(learned)]
       /\ solver.trail.trail[n].reason.kind = "Propagated"
       /\ CurrentDecisionLevel(solver.trail) >= 1

\* The last element of a non-empty sequence.
Last(q) == q[Len(q)]

LevelsOf(t, lits) == {GetDecisionLevel(t, lits[i]) : i \in 1..Len(lits)}

\* The clause stored last in the arena.
LastClause(s) == Last(ClauseOffsets(s.clause_db.clause_data))

\* A step that appended a clause to the arena.
ArenaGrew == Len(solver'.clause_db.clause_data) > Len(solver.clause_db.clause_data)

\* C25: the glue stored with a learned clause is the number of distinct
\* decision levels of its literals at the moment of learning, level 0
\* counted, and is >= 1; a clause stored by add_clause has no glue (0).
C25_GlueCountsLevels ==
    [][/\ (IsLearnStep /\ ArenaGrew) =>
            /\ ClauseLits(solver'.clause_db.clause_data, LastClause(solver'))
                  = solver'.analyze_state.new_clause
            /\ ClauseGlue(solver'.clause_db.clause_data, LastClause(solver'))
                  = Cardinality(LevelsOf(solver.trail, solver'.analyze_state.new_clause))
            /\ ClauseGlue(solver'.clause_db.clause_data, LastClause(solver')) >= 1
       /\ (pc = "idle" /\ pc' = "idle" /\ ArenaGrew) =>
            ClauseGlue(solver'.clause_db.clause_data, LastClause(solver')) = 0]_vars

\* A clause on two levels was just learned and stored with glue 2, after an
\* analysis that looked at more literals than there are levels.
C25_Witness ==
    /\ pc = "propagate"
    /\ solver.trail.trail # <<>>
    /\ Last(solver.trail.trail).reason.kind = "Propagated"
    /\ Last(solver.trail.trail).reason.cls = LastClause(solver)
    /\ ClauseLits(solver.clause_db.clause_data, LastClause(solver)) = solver.analyze_state.new_clause
    /\ ClauseGlue(solver.clause_db.clause_data, LastClause(solver)) = 2
    /\ Cardinality({v \in 1..Len(solver.analyze_state.seen) : solver.analyze_state.seen[v]}) > 2

\* C26: a learned clause of length >= 2 is stored with the negated UIP (the
\* literal asserted after the backjump) at index 0 and a literal assigned at
\* the backjump level at index 1.
C26_LearnedClauseWatchOrder ==
    [][(IsLearnStep /\ ArenaGrew) =>
         LET cd == solver'.clause_db.clause_data
             h == LastClause(solver')
         IN /\ ClauseLit(cd, h, 0) = Last(solver'.trail.trail).lit
            /\ GetDecisionLevel(solver'.trail, ClauseLit(cd, h, 1))
                  = CurrentDecisionLevel(solver'.trail)]_vars

\* The trail positions of solver whose entry backtrack(target) removes.
RemovedBy(s, target) == {p \in 1..Len(s.trail.trail) : LevelAt(s, p) > target}

\* The arena offsets on_pop is called with for the removed entries.
PoppedReasons(s, target) ==
    {s.trail.trail[p].reason.cls : p \in RemovedBy(s, target) \cap PropagatedEntries(s)}

\* C27 for one target: backtrack(target, on_pop) applied to the trail and
\* arena of solver.
BacktrackFrame(s, target) ==
    LET t == s.trail
        cd == s.clause_db.clause_data
        b == Backtrack(t, cd, target)
        n == Len(b.trail.trail)
    IN IF target >= CurrentDecisionLevel(t)
       THEN b = [trail |-> t, cd |-> cd, pos |-> Len(t.trail)]
       ELSE /\ n = Len(t.trail) - Cardinality(RemovedBy(s, target))
            /\ b.trail.trail = SubSeq(t.trail, 1, n)
            /\ RemovedBy(s, target) = (n + 1)..Len(t.trail)
            /\ \A p \in RemovedBy(s, target) :
                  ~AssignOf(b.trail.assignment, t.trail[p].lit).is_some
            /\ \A p \in 1..n :
                  AssignOf(b.trail.assignment, t.trail[p].lit) = AssignOf(t.assignment, t.trail[p].lit)
            /\ Len(b.trail.assignment) = Len(t.assignment)
            /\ b.trail.decision_positions = SubSeq(t.decision_positions, 1, target)
            /\ b.pos = n
            /\ Len(b.cd) = Len(cd)
            /\ \A i \in 1..Len(cd) :
                  b.cd[i] = IF (i - 1) \in PoppedReasons(s, target) /\ IsReasonWord(cd[i])
                            THEN cd[i] - IS_REASON ELSE cd[i]

\* C27: backtrack(target, on_pop) with target below the current level
\* removes exactly the entries of levels > target, unassigns their
\* variables, has on_pop clear the is_reason flag of the reason of each
\* removed entry and of no other clause, truncates decision_positions to
\* target, leaves the entries of levels <= target with their value, level
\* and reason, and returns the new trail length; with target at or above the
\* current level it changes nothing.
C27_BacktrackFrame ==
    \A target \in 0..(CurrentDecisionLevel(solver.trail) + 1) :
        BacktrackFrame(solver, target)

\* A trail of two levels or more on which an entry above level 0 has a
\* flagged learned clause as its reason, and an entry of level 0 exists.
C27_Witness ==
    /\ CurrentDecisionLevel(solver.trail) >= 1
    /\ \E p \in PropagatedEntries(solver) :
          /\ LevelAt(solver, p) >= 1
          /\ HasIsReason(solver, solver.trail.trail[p].reason.cls)
    /\ \E p \in 1..Len(solver.trail.trail) : LevelAt(solver, p) = 0

\* ------------------------------------------------------------------ C28
\* The clauses of the arena cd that mark_garbage marks and that were not
\* marked before.
NewlyMarked(cd) ==
    {h \in Range(ClauseOffsets(cd)) :
        IsGarbageWord(Word(MarkGarbage(cd), h)) /\ ~IsGarbageWord(Word(cd, h))}

\* The clauses whose old slot the step's collection stamped as removed.
RemovedByStep ==
    {h \in ArenaOffsets(solver) : Word(solver'.clause_db.clause_data_old, h) = REMOVED}

\* Is a clause mark_garbage must leave alone: an input clause (no glue), a
\* clause with glue <= 2, a clause already garbage, a clause with is_reason.
IsProtected(cd, h) ==
    \/ ClauseGlue(cd, h) <= 2
    \/ IsGarbageWord(Word(cd, h))
    \/ IsReasonWord(Word(cd, h))

\* C28: in the reduction that precedes a decision, mark_garbage newly marks
\* no input clause, no clause with glue <= 2, no clause that is already
\* garbage and no clause with is_reason set, and the collection removes no
\* such clause.
C28_OnlyCandidatesAreMarked ==
    [][IsDecideStep =>
         LET cd == solver.clause_db.clause_data
         IN /\ \A h \in NewlyMarked(cd) : ~IsProtected(cd, h)
            /\ \A h \in RemovedByStep : ~IsProtected(cd, h)]_vars

\* The decision was just made and the reduction before it removed a clause.
JustReduced ==
    /\ pc = "propagate"
    /\ solver.trail.trail # <<>>
    /\ Last(solver.trail.trail).reason.kind = "Decision"
    /\ solver.unpropagated_lit_pos = Len(solver.trail.trail) - 1
    /\ \E k \in 1..Len(solver.clause_db.clause_data_old) :
           solver.clause_db.clause_data_old[k] = REMOVED

\* A reduction removed a clause while an input clause and a learned clause
\* of glue above 2 with is_reason set were in the arena, and both are kept.
C28_Witness ==
    /\ JustReduced
    /\ \E h \in ArenaOffsets(solver) : IsInputClause(solver, h)
    /\ \E h \in ArenaOffsets(solver) :
           HasIsReason(solver, h) /\ ClauseGlue(solver.clause_db.clause_data, h) > 2

\* ------------------------------------------------------------------ C29
\* The marking candidates of the arena cd, read from the header words.
MarkingCandidates(cd) == {h \in Range(ClauseOffsets(cd)) : ~IsProtected(cd, h)}

\* (glue, length) of l is lexicographically >= that of r.
GlueLengthAtLeast(cd, l, r) ==
    \/ ClauseGlue(cd, l) > ClauseGlue(cd, r)
    \/ (ClauseGlue(cd, l) = ClauseGlue(cd, r) /\ ClauseLen(cd, l) >= ClauseLen(cd, r))

RECURSIVE KeptWordsOf(_, _)
KeptWordsOf(cd, hs) ==
    IF hs = <<>> THEN <<>>
    ELSE (IF IsGarbageWord(Word(cd, Head(hs))) THEN <<>>
          ELSE SubSeq(cd, Head(hs) + 1, Head(hs) + OffLits + ClauseLen(cd, Head(hs))))
         \o KeptWordsOf(cd, Tail(hs))

KeptWords(cd) == KeptWordsOf(cd, ClauseOffsets(cd))

\* The buffer new_data holds exactly the clauses of marked that are not
\* garbage, in their order, contiguously and word for word (flags, length,
\* glue, literals), and none of its clauses is marked garbage.
KeepsExactlyLiveClauses(marked, new_data) ==
    /\ new_data = KeptWords(marked)
    /\ \A h \in Range(ClauseOffsets(new_data)) : ~IsGarbageWord(Word(new_data, h))

\* The arena the collection of garbage.rs leaves.
CompactedByFirstWord(marked) ==
    CompactDB([clause_data |-> marked, clause_data_old |-> <<>>]).clause_data

\* The arena the collection of clause.rs leaves.
CompactedByLenWord(marked) ==
    CollectGarbageLenWord([clause_data |-> marked, clause_data_old |-> <<>>]).clause_data

\* In the reduction that precedes a decision, the collection of garbage.rs
\* keeps exactly the clauses not marked garbage, unchanged and in order, and
\* the live buffer after the step is that arena.
CompactionByFirstWordKeepsClauses ==
    [][IsDecideStep =>
         LET marked == MarkGarbage(solver.clause_db.clause_data)
         IN /\ KeepsExactlyLiveClauses(marked, CompactedByFirstWord(marked))
            /\ solver'.clause_db.clause_data = CompactedByFirstWord(marked)]_vars

\* C30: compaction keeps exactly the clauses not marked garbage, in their
\* original order and contiguously, each with the same flags, length, glue
\* and literals as before the collection, and no clause of the live buffer is
\* marked garbage afterwards; stated for both ClauseDB::collect_garbage of
\* the source, on the marked arena of every reduction.
C30_CompactionKeepsLiveClauses ==
    [][IsDecideStep =>
         LET marked == MarkGarbage(solver.clause_db.clause_data)
         IN /\ KeepsExactlyLiveClauses(marked, CompactedByFirstWord(marked))
            /\ KeepsExactlyLiveClauses(marked, CompactedByLenWord(marked))]_vars

\* ------------------------------------------------------------------ C31
\* n is what the rewrite of the handle h of the marked arena must give when
\* new_data is the live buffer after the collection: REMOVED for a clause
\* marked garbage, otherwise an offset of new_data at which the words of the
\* clause (flags, length, glue, literals) stand.
RewrittenTo(marked, new_data, h, n) ==
    IF IsGarbageWord(Word(marked, h)) THEN n = REMOVED
    ELSE LET data_len == OffLits + ClauseLen(marked, h)
         IN /\ n >= 0
            /\ n + data_len <= Len(new_data)
            /\ SubSeq(new_data, n + 1, n + data_len) = SubSeq(marked, h + 1, h + data_len)

\* The collection of garbage.rs with update_clause_index of garbage.rs.
RewriteByFirstWord(marked) ==
    LET db == CompactDB([clause_data |-> marked, clause_data_old |-> <<>>])
    IN \A h \in Range(ClauseOffsets(marked)) :
           RewrittenTo(marked, db.clause_data, h, UpdateClauseIndex(db, h))

\* The collection of clause.rs with update_old_clause_index of clause.rs.
RewriteByLenWord(marked) ==
    LET db == CollectGarbageLenWord([clause_data |-> marked, clause_data_old |-> <<>>])
    IN \A h \in Range(ClauseOffsets(marked)) :
           RewrittenTo(marked, db.clause_data, h, UpdateOldClauseIndex(db, h))

\* In the reduction that precedes a decision, update_clause_index of
\* garbage.rs maps every handle of the arena to the offset of the same clause
\* in the live buffer of the next state, or to REMOVED.
RewriteByFirstWordFindsClause ==
    [][IsDecideStep =>
         LET marked == MarkGarbage(solver.clause_db.clause_data)
         IN /\ RewriteByFirstWord(marked)
            /\ \A h \in ArenaOffsets(solver) :
                   RewrittenTo(marked, solver'.clause_db.clause_data, h,
                               UpdateClauseIndex(solver'.clause_db, h))]_vars

\* C31: after a collection the rewrite of a pre-collection handle gives, for
\* a surviving clause, the offset of the new buffer at which exactly that
\* clause begins (same metadata and literals) and, for a removed clause,
\* REMOVED; the forwarding value is read from the word compaction wrote it
\* to. Stated for both pairs of collection and rewrite of the source, on the
\* marked arena of every reduction.
C31_RewriteFindsSameClause ==
    [][IsDecideStep =>
         LET marked == MarkGarbage(solver.clause_db.clause_data)
         IN RewriteByFirstWord(marked) /\ RewriteByLenWord(marked)]_vars

\* The offsets update_old_clause_index returns are where the copies begin:
\* apart from the length word, the clause.rs pair forwards every handle to
\* the start of the copy of its clause.
RewriteByLenWordFindsStart ==
    [][IsDecideStep =>
         LET marked == MarkGarbage(solver.clause_db.clause_data)
             db == CollectGarbageLenWord([clause_data |-> marked, clause_data_old |-> <<>>])
         IN \A h \in Range(ClauseOffsets(marked)) :
              LET n == UpdateOldClauseIndex(db, h)
              IN IF IsGarbageWord(Word(marked, h)) THEN n = REMOVED
                 ELSE /\ n >= 0 /\ n + OffLits + ClauseLen(marked, h) <= Len(db.clause_data)
                      /\ Word(db.clause_data, n) = Word(marked, h)
                      /\ Word(db.clause_data, n + OffLen) = n
                      /\ SubSeq(db.clause_data, n + OffGlue + 1, n + OffLits + ClauseLen(marked, h))
                           = SubSeq(marked, h + OffGlue + 1, h + OffLits + ClauseLen(marked, h))]_vars

\* ------------------------------------------------------------------ C32
\* The offset, in the compacted buffer, of the clause h of the marked arena:
\* the number of words of the kept clauses in front of it.
NewOffsetOf(marked, h) ==
    Len(KeptWordsOf(marked, SelectSeq(ClauseOffsets(marked), LAMBDA g : g < h)))

\* The handles hs without those of clauses marked garbage, each replaced by
\* the new offset of its clause, in the same order.
RECURSIVE KeptHandles(_, _)
KeptHandles(marked, hs) ==
    IF hs = <<>> THEN <<>>
    ELSE (IF IsGarbageWord(Word(marked, Head(hs))) THEN <<>>
          ELSE <<NewOffsetOf(marked, Head(hs))>>) \o KeptHandles(marked, Tail(hs))

\* Every entry of the watch list of lit names a clause of the live buffer
\* that is not garbage and holds lit at index 0 or 1.
WatchListIsLive(s, lit) ==
    LET ws == s.watches[LitToIdx(lit) + 1]
        cd == s.clause_db.clause_data
    IN \A i \in 1..Len(ws) :
          /\ ws[i] \in Range(ClauseOffsets(cd))
          /\ ~IsGarbageWord(Word(cd, ws[i]))
          /\ lit \in {ClauseLit(cd, ws[i], 0), ClauseLit(cd, ws[i], 1)}

\* C32: after the collection that precedes a decision, every watch list is
\* the list before it without the entries of removed clauses, the others
\* rewritten to the new offsets in unchanged order, and each entry names a
\* live clause holding the literal at index 0 or 1; the rewrite of a watch
\* list that names every clause of the arena drops exactly the removed ones.
C32_WatchesSurviveCollection ==
    [][IsDecideStep =>
         LET marked == MarkGarbage(solver.clause_db.clause_data)
             db == CompactDB([clause_data |-> marked, clause_data_old |-> <<>>])
         IN /\ \A l \in WatchedLits(solver) :
                 /\ solver'.watches[LitToIdx(l) + 1]
                      = KeptHandles(marked, solver.watches[LitToIdx(l) + 1])
                 /\ WatchListIsLive(solver', l)
            /\ UpdateWatches(db, ClauseOffsets(marked))
                 = KeptHandles(marked, ClauseOffsets(marked))]_vars

\* A reduction removed a clause that stood in front of a kept one, and a
\* watch list with two entries went through the rewrite.
C32_Witness ==
    /\ JustReduced
    /\ \E k \in 1..Len(solver.clause_db.clause_data_old) :
         /\ solver.clause_db.clause_data_old[k] = REMOVED
         /\ k + OffLits + solver.clause_db.clause_data_old[k + 1]
              <= Len(solver.clause_db.clause_data_old)
    /\ \E l \in WatchedLits(solver) : Len(solver.watches[LitToIdx(l) + 1]) >= 2

\* ------------------------------------------------------------------ C33
\* The words of the clause at handle h of the arena cd.
ClauseWords(cd, h) == SubSeq(cd, h + 1, h + OffLits + ClauseLen(cd, h))

\* C33: in the collection that precedes a decision, no clause named by a
\* Propagated reason of the trail is marked garbage, and afterwards the
\* reason of the same trail entry names a clause of the live buffer that is
\* word for word the clause it named before.
C33_ReasonsSurviveCollection ==
    [][IsDecideStep =>
         LET cd == solver.clause_db.clause_data
             marked == MarkGarbage(cd)
             new_data == solver'.clause_db.clause_data
         IN \A p \in PropagatedEntries(solver) :
              LET h == solver.trail.trail[p].reason.cls
                  r == solver'.trail.trail[p].reason
              IN /\ h \in ArenaOffsets(solver)
                 /\ ~IsGarbageWord(Word(marked, h))
                 /\ h \notin RemovedByStep
                 /\ r.kind = "Propagated"
                 /\ r.cls \in Range(ClauseOffsets(new_data))
                 /\ ClauseWords(new_data, r.cls) = ClauseWords(cd, h)]_vars

\* A reduction removed a clause that stood in front of a learned clause which
\* is the reason of a trail entry.
C33_Witness ==
    /\ JustReduced
    /\ \E k \in 1..Len(solver.clause_db.clause_data_old) :
         /\ solver.clause_db.clause_data_old[k] = REMOVED
         /\ \E p \in PropagatedEntries(solver) :
              /\ solver.trail.trail[p].reason.cls >= k - 1
              /\ ClauseGlue(solver.clause_db.clause_data,
                            solver.trail.trail[p].reason.cls) > 2

\* ------------------------------------------------------------------ C34
\* The solver after the decision of this step had it been made without the
\* collection in front of it.
DecidedWithoutCollection ==
    [solver EXCEPT !.trail =
        AssignLit(@, LitFromVar(FindUnassignedVariable(solver.trail.assignment)), Decision)]

\* C34: the search with clause reduction and the search on the uncompacted
\* arena give the same results of propagate, call by call, and the same
\* verdict: for the whole call of solve() from every state add_clause can
\* leave, and for the rest of the run from every decision, where the one run
\* continues from the collected state of the step and the other from the
\* state decided without collection.
C34_ReductionKeepsSearch ==
    [][/\ (pc = "idle" /\ ~solver.trivially_unsat)
             => /\ SearchFrom(solver, TRUE, <<>>) = SearchFrom(solver, FALSE, <<>>)
                /\ SearchFrom(solver, TRUE, <<>>).outcome = Solve(solver).outcome
       /\ (IsDecideStep /\ pc' = "propagate")
             => SearchFrom(solver', TRUE, <<>>)
                   = SearchFrom(DecidedWithoutCollection, FALSE, <<>>)]_vars

\* A reduction has just removed a clause and the rest of the run, which
\* calls propagate at least twice more, ends with the verdict Sat.
C34_Witness ==
    /\ JustReduced
    /\ SearchFrom(solver, TRUE, <<>>).outcome = "Sat"
    /\ Len(SearchFrom(solver, TRUE, <<>>).results) >= 2

\* ------------------------------------------------------------------ C35
\* Walking the buffer by length words from offset 0 ends exactly at its end:
\* the clauses occupy 3 + length words each, one after the other.
ClausesTileBuffer(cd) ==
    LET hs == ClauseOffsets(cd)
    IN /\ \A i \in 1..Len(hs) :
            /\ hs[i] + OffLits <= Len(cd)
            /\ ClauseLen(cd, hs[i]) >= 0
       /\ (hs # <<>> =>
             hs[Len(hs)] + OffLits + ClauseLen(cd, hs[Len(hs)]) = Len(cd))

\* The handles the watch lists, the trail and the assignment store hold.
HeldHandles(s) ==
    UNION {Range(s.watches[i]) : i \in 1..Len(s.watches)}
    \cup {s.trail.trail[p].reason.cls : p \in PropagatedEntries(s)}
    \cup {s.trail.assignment[v].reason.cls :
             v \in {u \in 1..Len(s.trail.assignment) :
                       s.trail.assignment[u].reason.kind = "Propagated"}}

C36_NoVariableTwiceOnTrail ==
    \A i, j \in 1..Len(solver.trail.trail) :
        i < j => LitVar(solver.trail.trail[i].lit) # LitVar(solver.trail.trail[j].lit)

\* No unit clause was added twice.
NoRepeatedUnit ==
    \A c \in BagToSet(formula) : Cardinality(c) = 1 => CopiesIn(c, formula) = 1

\* As long as no unit clause is added twice, no variable occurs twice on the
\* trail.
NoRepeatedUnitNoVariableTwice == NoRepeatedUnit => C36_NoVariableTwiceOnTrail

\* ------------------------------------------------------------------ C37
\* The positions of the trail that hold a literal of variable v.
EntriesOf(s, v) == {p \in 1..Len(s.trail.trail) : LitVar(s.trail.trail[p].lit) = v}

\* C37: in every state a variable has a value in the assignment store iff it
\* has exactly one entry on the trail, the stored value makes the literal of
\* the entry true and the stored reason is the reason of the entry, handles
\* rewritten by a collection included.
C37_TrailAgreesWithAssignment ==
    LET a == solver.trail.assignment
    IN /\ \A v \in 1..(Len(a) - 1) :
            a[v + 1].is_some <=> Cardinality(EntriesOf(solver, v)) = 1
       /\ \A p \in 1..Len(solver.trail.trail) :
            LET e == solver.trail.trail[p]
            IN /\ LitVar(e.lit) \in 1..(Len(a) - 1)
               /\ IsLitSatisfied(a, e.lit)
               /\ AssignOf(a, e.lit).reason = e.reason

\* As long as no unit clause is added twice, trail and assignment store agree.
NoRepeatedUnitTrailAgrees == NoRepeatedUnit => C37_TrailAgreesWithAssignment

\* ------------------------------------------------------------------ C38
\* No variable of the solver is without a value.
NoVariableUnassigned(s) ==
    \A v \in 1..(Len(s.trail.assignment) - 1) : s.trail.assignment[v + 1].is_some

\* C38: in every state assignment_complete() holds exactly when no variable
\* is unassigned; solve has not returned Sat while a variable is unassigned;
\* when propagate has returned Done and the assignment is not complete,
\* find_unassigned_variable finds a variable (solve does not reach
\* unreachable!()); and every decision on the trail is a positive literal.
C38_CompleteMeansAllAssigned ==
    /\ AssignmentComplete(solver.trail) <=> NoVariableUnassigned(solver)
    /\ (pc = "done" /\ outcome = "Sat") => NoVariableUnassigned(solver)
    /\ (pc = "check" /\ ~AssignmentComplete(solver.trail))
          => FindUnassignedVariable(solver.trail.assignment) # 0
    /\ \A p \in 1..Len(solver.trail.trail) :
          solver.trail.trail[p].reason.kind = "Decision" => IsPos(solver.trail.trail[p].lit)

\* For a solver that holds a variable and was given no unit clause twice,
\* completeness of the assignment is what the claim says.
NoRepeatedUnitCompleteMeansAllAssigned ==
    (NoRepeatedUnit /\ solver.trail.assignment # <<>>) => C38_CompleteMeansAllAssigned

\* ------------------------------------------------------------------ C39
\* The literals of the conflicting clause that are on the current level.
ConflictLitsOfCurrentLevel ==
    LET lits == ClauseLits(solver.clause_db.clause_data, conflicting_clause)
    IN {i \in 1..Len(lits) :
           GetDecisionLevel(solver.trail, lits[i]) = CurrentDecisionLevel(solver.trail)}

\* The resolution loop of analyze_contradiction on the conflict at hand.
ResolutionOfConflict ==
    UipLoop(solver.trail, solver.clause_db.clause_data,
            ResetAnalyzeState(TotalVars(solver.trail), CurrentDecisionLevel(solver.trail)),
            conflicting_clause, 0, Len(solver.trail.trail))

\* C39: whenever analyze_contradiction is entered at a decision level >= 1,
\* the conflicting clause holds a literal of the current level, the walk
\* back over the trail finds a seen literal of the current level every time
\* (it does not run off the trail), get_reason_cls is only called for
\* literals with a Propagated reason, and the loop ends with open = 1 at a
\* literal of the current level.
C39_ResolutionIsWellDefined ==
    (pc = "analyze" /\ CurrentDecisionLevel(solver.trail) >= 1) =>
        /\ ConflictLitsOfCurrentLevel # {}
        /\ ~ResolutionOfConflict.panic
        /\ ResolutionOfConflict.st.open = 1
        /\ GetDecisionLevel(solver.trail, ResolutionOfConflict.uip)
             = CurrentDecisionLevel(solver.trail)

\* A conflict at level 2 or above whose clause holds two literals of the
\* current level, so that a reason clause is resolved, and a literal of a
\* lower level.
C39_Witness ==
    /\ pc = "analyze"
    /\ CurrentDecisionLevel(solver.trail) >= 2
    /\ Cardinality(ConflictLitsOfCurrentLevel) >= 2
    /\ Cardinality(ConflictLitsOfCurrentLevel)
         < ClauseLen(solver.clause_db.clause_data, conflicting_clause)

\* ------------------------------------------------------------------ C40
\* The solver holds no variable: add_clause was never called, or only with
\* tautological clauses, which return before expand.
HoldsNoVariable(s) == s.trail.assignment = <<>> /\ ~s.trivially_unsat

\* C40: solve() on a solver that holds no variable returns Sat with an empty
\* model vector; it does not panic.
C40_EmptySolverIsSat ==
    (pc = "done" /\ HoldsNoVariable(solver)) =>
        (outcome = "Sat" /\ ModelAsVec(solver) = <<>>)

\* On a solver that holds no variable, solve() never comes to an answer
\* other than the panic of unreachable!().
EmptySolverPanics ==
    (pc = "done" /\ HoldsNoVariable(solver)) => outcome = "Panic"

====
